---- MODULE Spec2Model ----
(***************************************************************************)
(* Model of bootstrax, the XENONnT online processing manager               *)
(* (src/straxen/scripts/bootstrax.py).                                     *)
(*                                                                         *)
(* Spec          several bootstrax instances (one per host) running loop() *)
(*               against the shared run collection: the claims            *)
(*               (consider_run), the supervision of the child             *)
(*               (process_run), fail_run, abandon and cleanup_db, with a  *)
(*               wall clock that advances between registry operations.    *)
(*               Every registry operation is one atomic step; the local   *)
(*               work between two registry operations belongs to the step *)
(*               that follows it.                                         *)
(* SpecRetry     the same instances on a run that has failed eight times. *)
(* SpecDone      the same instances on a run that is already done.         *)
(* SpecStart     the processes launched on one host: the startup of       *)
(*               loop() and the heartbeats of set_state.                  *)
(* SpecBackoff   the delays fail_run draws for a run that keeps failing.  *)
(* SpecValidate  process_run from the exit of the child to done or failed.*)
(* SpecTargets   keep_target and infer_target for one claimed run.         *)
(* SpecMode      infer_mode and infer_records_compressor for one run.      *)
(* SpecKill      kill_process on the strax child and its descendants.      *)
(* SpecSupervise process_run from the start of the child to its exit.      *)
(* SpecLoop      loop() of one instance, in production or in test mode:    *)
(*               the disk guard, the claims, ping_dbs and cleanup_db.      *)
(* SpecProcess   run() with --process NUMBER, up to the exit of bootstrax. *)
(* SpecLoopFair, SpecProcessFair  the two above with threads that keep     *)
(*               running, for the claims of termination.                   *)
(* SpecClean     clean_run and _delete_data on the output of one run.      *)
(* SpecEb        eb_can_process and the query for new runs of loop().      *)
(* SpecRefresh   the timestamp of a claimed run while its claimant works   *)
(*               on it, and the stuck-run sweep of another instance.       *)
(*                                                                         *)
(* Times are seconds.  A field that is missing from a Mongo document is    *)
(* the value `absent'.                                                     *)
(***************************************************************************)
EXTENDS Integers, Sequences, FiniteSets, TLC

VARIABLES
    now,                \* wall clock, daq_core.now()
    run_coll,           \* the run collection: run number -> run doc
    pc,                 \* per instance: where it is in loop()
    call,               \* per instance: the query of its current consider_run
    rd,                 \* per instance: its local run doc `rd`
    next_cleanup_time,  \* per instance: local of loop()
    ticks_left,         \* clock advances the behaviour may still take
    fails_left,         \* fail_run calls the behaviour may still make
    gave_up,            \* history: the runs whose stored n_failures reached max_n_retry
    found,              \* history, per instance: what its stuck-run query found on the run
    bs_coll,            \* the bootstrax collection: heartbeat documents in _id order
    alive,              \* the pids of the bootstrax processes running on ThisHost
    boot_pc,            \* per process: where it is in the startup of loop() / set_state
    any_other_running,  \* per process: local of loop(), the pids it found registered
    previous_entry,     \* per process: local of set_state, index into bs_coll or 0
    registered,         \* the pids that have completed set_state("starting")
    fail_count,         \* n_failures of the local run doc of one fail_run after another
    delays,             \* the delays those fail_run calls added to now() for next_retry
    val_pc,             \* where one process_run is from the exit of its child on
    val,                \* what that process_run has read and written
    tg_pc,              \* where one process_run is around its call of infer_target
    tg_in,              \* the arguments and the run doc that call works on
    tg_out,             \* what keep_target and infer_target returned or raised
    md_pc,              \* where one process_run is around its call of infer_mode
    md_in,              \* the arguments, the host and the run doc that call works on
    md_out,             \* what infer_mode returned
    kill_pc,            \* where one kill_process call of process_run is
    to_kill,            \* local of kill_process: the descendants it still has to kill
    signals,            \* history: the signals sent, <<pid, signal, time>> in order
    living,             \* the pids of the strax child and its descendants that exist
    production,         \* args.production of the instance of SpecLoop
    loop_pc,            \* where that instance is in loop()
    loop_local,         \* the locals of its loop() and sufficient_diskspace(), and
                        \* `claimed', the history of the consider_run calls of the
                        \* current iteration that returned a run: <<run, query>>
    bs_state,           \* the state of its latest heartbeat document
    online_monitor,     \* the runs with documents in the online_monitor collection
    selected,           \* history: the runs consider_run has returned to loop()
    delete_thread,      \* the DeleteThread of delete_live_data, if there is one
    clean_pc,           \* where the instance of SpecClean is with its one run
    run_doc,            \* that run's document: data, deleted_data, bootstrax state
    disk,               \* the output directories of that run that exist on ThisHost
    strax_alive,        \* whether a strax child started for that run still exists
    tagged_abandon,     \* whether that run carries the abandon tag
    eb_pc,              \* where the instance of SpecEb is in one iteration of loop()
    eb_in,              \* its host and mode, and what it finds in the registry
    eb_out,             \* what eb_can_process returned and what loop() claimed
    work_pc,            \* where the claimant of SpecRefresh is in process_run
    work                \* its run: the registry's state and timestamp, and its waits

vars == <<now, run_coll, pc, call, rd, next_cleanup_time, ticks_left, fails_left,
          gave_up, found, bs_coll, alive, boot_pc, any_other_running, previous_entry,
          registered, fail_count, delays, val_pc, val, tg_pc, tg_in, tg_out,
          md_pc, md_in, md_out, kill_pc, to_kill, signals, living,
          production, loop_pc, loop_local, bs_state, online_monitor, selected,
          delete_thread, clean_pc, run_doc, disk, strax_alive, tagged_abandon,
          eb_pc, eb_in, eb_out, work_pc, work>>

\* The variables of the startup on one host (SpecStart).
startVars == <<bs_coll, alive, boot_pc, any_other_running, previous_entry, registered>>

\* The variables of the run collection and its instances, the clock excepted.
runVars == <<run_coll, pc, call, rd, next_cleanup_time, fails_left, gave_up, found>>

\* The variables of repeated failures of one run (SpecBackoff) and of the
\* validation of one processed run (SpecValidate).
backoffVars == <<fail_count, delays>>
valVars == <<val_pc, val>>

\* The variables of the target resolution of one run (SpecTargets).
tgVars == <<tg_pc, tg_in, tg_out>>

\* The variables of the resource inference of one run (SpecMode) and of one
\* kill of the strax child (SpecKill).
mdVars == <<md_pc, md_in, md_out>>
killVars == <<kill_pc, to_kill, signals, living>>

\* The variables of the loop of one instance in either mode (SpecLoop).
loopVars == <<production, loop_pc, loop_local, bs_state, online_monitor, selected>>

\* The variables of the output of one run on one host (SpecClean).
cleanVars == <<clean_pc, run_doc, disk, strax_alive, tagged_abandon>>

\* The variables of the decision of an old event builder (SpecEb) and of
\* the refreshes of a claimant (SpecRefresh).
ebVars == <<eb_pc, eb_in, eb_out>>
workVars == <<work_pc, work>>
moreVars == <<cleanVars, ebVars, workVars>>
lateVars == <<loopVars, delete_thread, moreVars>>
restVars == <<tgVars, mdVars, killVars, lateVars>>

\* The variables the instances of Spec leave alone, and those the processes
\* of SpecStart leave alone.
aux == <<startVars, backoffVars, valVars, restVars>>
besideStart == <<runVars, backoffVars, valVars, restVars>>

-----------------------------------------------------------------------------
(* Bounds *)

\* Number of times the clock advances in one behaviour of Spec, and number of
\* fail_run calls made in it (n_failures has no upper limit in the code).
MaxTicks == 1
MaxFailRuns == 2

\* Longest --targets list tried.
MaxTargets == 2

\* Largest number of earlier failures of the run whose resources are inferred.
MaxPriorFails == 4

\* Largest number of descendants of the strax child, and number of times the
\* clock advances while the child is being killed.
MaxDescendants == 3
KillTicks == 2

\* The same two budgets for SpecRetry.
RetryTicks == 2
RetryFailRuns == 3

\* SpecStart: the bootstrax processes launched on one host, and the number of
\* times the clock advances.
MaxInstances == 3
StartTicks == 1

\* SpecBackoff: the number of times the run fails.
MaxFailures == 5

\* SpecValidate: the number of chunks in the metadata of a data type.
MaxChunks == 2

-----------------------------------------------------------------------------
(* Configuration (bootstrax.py, "Configuration") *)

max_considering_time == 60
max_busy_time == 120
cleanup_spacing == 60
retry_run == 60
abandoning_allowed == 86400
max_n_retry == 10
min_status_interval == 60
max_timetamp_diff == 5
signal_escalate == 3

absent == 0 - 1

\* The hosts of the running instances; both are new event builders, for
\* which eb_can_process() is True.
Hosts == {"eb3", "eb4"}

\* A host whose instance stopped before the behaviour starts.
FormerHost == "eb5"

\* The host the processes of SpecStart run on, and their pids.
ThisHost == "eb3"
Pids == 1 .. MaxInstances

\* How far the clock may advance between two steps of the instances.
TickSteps == {4000}

\* The values of np.random.uniform(0.5, 1.5) that fail_run draws, in percent.
JitterSample == {50}

-----------------------------------------------------------------------------
(* Run documents *)

Min(a, b) == IF a < b THEN a ELSE b

\* dict.get(key, default) on a field that may be missing.
Get(v, default) == IF v = absent THEN default ELSE v

\* Mongo {"$lt": bound}: a document whose field is missing does not match.
Lt(v, bound) == v # absent /\ v < bound

\* The `bootstrax` sub-document of a run that no bootstrax has touched.
NoBootstrax ==
    [state |-> "none", host |-> "none", time |-> absent, n_failures |-> absent,
     next_retry |-> absent, reason |-> "none", said |-> "none"]

\* A run doc.  `data` is the set of hosts that have processed (non-live) data
\* registered for the run; `reason` is the failure message and `said` the
\* host the message names in "Host ... said it was ...".
RunDoc(number, bd, end, tagged, data) ==
    [number |-> number, start |-> 0, end |-> end, abandon_tag |-> tagged,
     data |-> data, bootstrax |-> bd]

\* Sub-documents a run can carry when the instances of Spec start: untouched,
\* or left behind in considering or busy by the instance of FormerHost.
LeftBehind ==
    {NoBootstrax}
    \cup {[NoBootstrax EXCEPT !.state = s, !.host = FormerHost, !.time = 0] :
            s \in {"considering", "busy"}}

\* A run that failed eight times on FormerHost and is due for a retry.
FailedBefore ==
    {[NoBootstrax EXCEPT !.state = "failed", !.host = FormerHost, !.time = 0,
                         !.n_failures = 8, !.next_retry = 0,
                         !.reason = "process_run"]}

\* The local `rd` of an instance that holds no run doc.
NoRd == [number |-> 0, end |-> absent, bootstrax |-> NoBootstrax]

\* What a find with bootstrax_projection returns of a run doc.
Projected(d) == [number |-> d.number, end |-> d.end, bootstrax |-> d.bootstrax]

-----------------------------------------------------------------------------
(* Queries of consider_run *)

\* loop(): new runs; retry of failed runs.  cleanup_db(): the rest.
Queries ==
    {"new", "retry", "stuck_considering", "stuck_busy", "done_no_end",
     "done_no_data", "abandon_done", "abandon_failed"}

SweepQueries == Queries \ {"new", "retry"}

\* Matches with a query for new runs that does not look at the state.
Matches_any_state_is_new(q, d, t) ==
    LET b == d.bootstrax IN
    CASE q = "new" -> TRUE
      [] q = "retry" ->
            /\ b.state = "failed"
            /\ Lt(b.n_failures, max_n_retry)
            /\ Lt(b.next_retry, t)
      [] q = "stuck_considering" ->
            b.state = "considering" /\ Lt(b.time, t - max_considering_time)
      [] q = "stuck_busy" ->
            b.state = "busy" /\ Lt(b.time, t - max_busy_time)
      [] q = "done_no_end" -> b.state = "done" /\ d.end = absent
      [] q = "done_no_data" -> b.state = "done" /\ d.data = {}
      [] q = "abandon_done" ->
            /\ d.abandon_tag
            /\ b.state = "done"
            /\ d.start > t - abandoning_allowed
      [] q = "abandon_failed" -> d.abandon_tag /\ b.state = "failed"

Matches(q, d, t) ==
    LET b == d.bootstrax IN
    CASE q = "new" -> b.state = "none"
      [] q = "retry" ->
            /\ b.state = "failed"
            /\ Lt(b.n_failures, max_n_retry)
            /\ Lt(b.next_retry, t)
      [] q = "stuck_considering" ->
            b.state = "considering" /\ Lt(b.time, t - max_considering_time)
      [] q = "stuck_busy" ->
            b.state = "busy" /\ Lt(b.time, t - max_busy_time)
      [] q = "done_no_end" -> b.state = "done" /\ d.end = absent
      [] q = "done_no_data" -> b.state = "done" /\ d.data = {}
      [] q = "abandon_done" ->
            /\ d.abandon_tag
            /\ b.state = "done"
            /\ d.start > t - abandoning_allowed
      [] q = "abandon_failed" -> d.abandon_tag /\ b.state = "failed"

Candidates(q, t) == {r \in DOMAIN run_coll : Matches(q, run_coll[r], t)}

\* sort=[("start", pymongo.DESCENDING)]: the most recently started match.
FirstMatch(q, t) ==
    CHOOSE r \in Candidates(q, t) :
        \A s \in Candidates(q, t) : run_coll[s].start <= run_coll[r].start

\* The query that follows q when q matches no run (loop and cleanup_db).
NextQuery(q) ==
    CASE q = "stuck_considering" -> "stuck_busy"
      [] q = "stuck_busy" -> "done_no_end"
      [] q = "done_no_end" -> "done_no_data"
      [] q = "done_no_data" -> "abandon_done"
      [] q = "abandon_done" -> "abandon_failed"
      [] q = "abandon_failed" -> "retry"
      [] q = "retry" -> "new"
      [] OTHER -> "new"

-----------------------------------------------------------------------------
(* set_run_state and fail_run *)

\* bd.update({...}): the fields of upd replace those of bd.
Update(bd, upd) ==
    [f \in DOMAIN bd |-> IF f \in DOMAIN upd THEN upd[f] ELSE bd[f]]

\* set_run_state without the host in the update.
set_run_state_without_host(bd, state, hostname, t, kwargs) ==
    LET new == Update(Update(bd, [state |-> state, time |-> t]), kwargs)
    IN  IF state = "failed"
        THEN [new EXCEPT !.n_failures = Get(bd.n_failures, 0) + 1]
        ELSE new

\* The sub-document set_run_state writes: the caller's local bd with state,
\* host, time and the kwargs replaced, and n_failures counted up from the
\* local value when the state is failed.
set_run_state(bd, state, hostname, t, kwargs) ==
    LET new == Update(Update(bd, [state |-> state, host |-> hostname, time |-> t]),
                      kwargs)
    IN  IF state = "failed"
        THEN [new EXCEPT !.n_failures = Get(bd.n_failures, 0) + 1]
        ELSE new

Pow5(k) == 5 ^ k

\* retry_delay without the cap on the exponent.
retry_delay_uncapped(n, jitter) == (retry_run * jitter * Pow5(n)) \div 100

\* The delay fail_run adds to now() for next_retry, for the failure count n
\* of the local run doc and a jitter given in percent.
retry_delay(n, jitter) == (retry_run * jitter * Pow5(Min(n, 3))) \div 100

-----------------------------------------------------------------------------
(* The instances: loop(), consider_run, process_run, cleanup_db *)

\* cleanup_db passes return_new_doc=False for the stuck-run queries only.
return_new_doc(q) == q \notin {"stuck_considering", "stuck_busy"}

StoredBd(r) == run_coll[r].bootstrax

Goto(p, where, q) ==
    /\ pc' = [pc EXCEPT ![p] = where]
    /\ call' = [call EXCEPT ![p] = q]

\* consider_run, first registry operation: find_one_and_update(query,
\* {"$set": {"bootstrax.state": "considering"}}) matches a run.
ConsiderClaim(p) ==
    /\ pc[p] = "find"
    /\ Candidates(call[p], now) # {}
    /\ LET r == FirstMatch(call[p], now) IN
        /\ run_coll' = [run_coll EXCEPT ![r].bootstrax.state = "considering"]
        /\ rd' = [rd EXCEPT ![p] = Projected(run_coll'[r])]
        /\ found' = [found EXCEPT ![p] =
                        IF return_new_doc(call[p]) THEN NoBootstrax
                        ELSE run_coll[r].bootstrax]
    /\ Goto(p, "set", call[p])
    /\ UNCHANGED <<now, next_cleanup_time, ticks_left, fails_left, gave_up, aux>>

\* consider_run returns None: the caller goes on to its next query.  After
\* the query for new runs, loop() enters cleanup_db only when
\* now() > next_cleanup_time; when cleanup_db returns, next_cleanup_time is
\* set; after the retry query the instance naps and starts over.
ConsiderNone(p) ==
    /\ pc[p] = "find"
    /\ Candidates(call[p], now) = {}
    /\ IF call[p] = "new"
       THEN Goto(p, "find", IF now > next_cleanup_time[p]
                            THEN "stuck_considering" ELSE "retry")
       ELSE Goto(p, "find", NextQuery(call[p]))
    /\ next_cleanup_time' =
         IF call[p] = "abandon_failed"
         THEN [next_cleanup_time EXCEPT ![p] = now + cleanup_spacing]
         ELSE next_cleanup_time
    /\ UNCHANGED <<now, run_coll, rd, ticks_left, fails_left, gave_up, found, aux>>

\* consider_run, second registry operation: set_run_state(rd, "considering",
\* return_new_doc) replaces the stored sub-document by the local one and
\* returns the document after or before that update.
ConsiderSet(p) ==
    /\ pc[p] = "set"
    /\ LET r == rd[p].number
           bd == set_run_state(rd[p].bootstrax, "considering", p, now, <<>>)
           before == Projected(run_coll[r])
       IN
        /\ run_coll' = [run_coll EXCEPT ![r].bootstrax = bd]
        /\ rd' = [rd EXCEPT ![p] = IF return_new_doc(call[p])
                                   THEN Projected(run_coll'[r]) ELSE before]
    /\ Goto(p, IF call[p] \in SweepQueries THEN "sweep_fail" ELSE "proc", call[p])
    /\ UNCHANGED <<now, next_cleanup_time, ticks_left, fails_left, gave_up, found, aux>>

\* fail_run(rd, reason): clean_run removes this host's data of the run, then
\* set_run_state(rd, "failed", reason=..., next_retry=...).
fail_run(p, reason, said, where, q, keep) ==
    \E jitter \in JitterSample :
        LET r == rd[p].number
            n == Get(rd[p].bootstrax.n_failures, 0)
            bd == set_run_state(rd[p].bootstrax, "failed", p, now,
                                [reason |-> reason, said |-> said,
                                 next_retry |-> now + retry_delay(n, jitter)])
        IN
        /\ run_coll' = [run_coll EXCEPT ![r].bootstrax = bd, ![r].data = @ \ {p}]
        /\ rd' = [rd EXCEPT ![p] = IF keep THEN [@ EXCEPT !.bootstrax = bd] ELSE NoRd]
        /\ Goto(p, where, q)
        /\ fails_left > 0
        /\ fails_left' = fails_left - 1
        /\ gave_up' = IF bd.n_failures >= max_n_retry THEN gave_up \cup {r} ELSE gave_up
        /\ found' = [found EXCEPT ![p] = NoBootstrax]
        /\ UNCHANGED <<now, next_cleanup_time, ticks_left, aux>>

\* cleanup_db: fail_run on the run a sweep query returned; the abandon
\* queries go on to abandon(), the others repeat their query.
SweepFail(p) ==
    /\ pc[p] = "sweep_fail"
    /\ LET q == call[p]
           abandons == q \in {"abandon_done", "abandon_failed"}
       IN fail_run(p, q,
                   IF return_new_doc(q) THEN "none" ELSE rd[p].bootstrax.host,
                   IF abandons THEN "abandon_get" ELSE "find", q, abandons)

\* abandon(mongo_id): get_run ...
AbandonGet(p) ==
    /\ pc[p] = "abandon_get"
    /\ rd' = [rd EXCEPT ![p] = Projected(run_coll[rd[p].number])]
    /\ Goto(p, "abandon_set", call[p])
    /\ UNCHANGED <<now, run_coll, next_cleanup_time, ticks_left, fails_left, gave_up, found, aux>>

\* ... and set_run_state(rd, "abandoned").
AbandonSet(p) ==
    /\ pc[p] = "abandon_set"
    /\ LET r == rd[p].number
           bd == set_run_state(rd[p].bootstrax, "abandoned", p, now, <<>>)
       IN run_coll' = [run_coll EXCEPT ![r].bootstrax = bd]
    /\ rd' = [rd EXCEPT ![p] = NoRd]
    /\ Goto(p, "find", call[p])
    /\ UNCHANGED <<now, next_cleanup_time, ticks_left, fails_left, gave_up, found, aux>>

\* process_run up to strax_proc.start(): a failing check of the run doc ...
ProcFail(p) ==
    /\ pc[p] = "proc"
    /\ fail_run(p, "process_run", "none", "find", "new", FALSE)

\* ... or clean_run, infer_target, infer_mode and the start of the child.
ProcStart(p) ==
    /\ pc[p] = "proc"
    /\ run_coll' = [run_coll EXCEPT ![rd[p].number].data = @ \ {p}]
    /\ Goto(p, "poll", "new")
    /\ UNCHANGED <<now, rd, next_cleanup_time, ticks_left, fails_left, gave_up, found, aux>>

\* A poll that finds the child running and no fatal condition:
\* set_run_state(rd, "busy", **info).
PollBusy(p) ==
    /\ pc[p] = "poll"
    /\ LET r == rd[p].number
           bd == set_run_state(rd[p].bootstrax, "busy", p, now, <<>>)
       IN
        /\ run_coll' = [run_coll EXCEPT ![r].bootstrax = bd]
        /\ rd' = [rd EXCEPT ![p].bootstrax = bd]
    /\ UNCHANGED <<now, pc, call, next_cleanup_time, ticks_left, fails_left, gave_up, found, aux>>

\* A poll that finds a fatal condition (the child is killed) or a non-zero
\* exit code.
PollFail(p) ==
    /\ pc[p] = "poll"
    /\ fail_run(p, "process_run", "none", "find", "new", FALSE)

\* A poll that finds exit code 0; the child has registered its data.
PollExit0(p) ==
    /\ pc[p] = "poll"
    /\ run_coll' = [run_coll EXCEPT ![rd[p].number].data = @ \cup {p}]
    /\ Goto(p, "validate", "new")
    /\ UNCHANGED <<now, rd, next_cleanup_time, ticks_left, fails_left, gave_up, found, aux>>

\* The checks of the chunk metadata fail.
ValidateFail(p) ==
    /\ pc[p] = "validate"
    /\ fail_run(p, "process_run", "none", "find", "new", FALSE)

\* rd = get_run(mongo_id=rd["_id"])
ValidateFetch(p) ==
    /\ pc[p] = "validate"
    /\ rd' = [rd EXCEPT ![p] = Projected(run_coll[rd[p].number])]
    /\ Goto(p, "checks", "new")
    /\ UNCHANGED <<now, run_coll, next_cleanup_time, ticks_left, fails_left, gave_up, found, aux>>

\* The run has not ended, the coverage is off or not all files are saved.
ChecksFail(p) ==
    /\ pc[p] = "checks"
    /\ fail_run(p, "process_run", "none", "find", "new", FALSE)

\* All checks pass: set_run_state(rd, "done", **info).
ChecksDone(p) ==
    /\ pc[p] = "checks"
    /\ rd[p].end # absent
    /\ p \in run_coll[rd[p].number].data
    /\ LET r == rd[p].number
           bd == set_run_state(rd[p].bootstrax, "done", p, now, <<>>)
       IN run_coll' = [run_coll EXCEPT ![r].bootstrax = bd]
    /\ rd' = [rd EXCEPT ![p] = NoRd]
    /\ Goto(p, "find", "new")
    /\ UNCHANGED <<now, next_cleanup_time, ticks_left, fails_left, gave_up, found, aux>>

\* Time passes.
Tick ==
    /\ ticks_left > 0
    /\ \E d \in TickSteps : now' = now + d
    /\ ticks_left' = ticks_left - 1
    /\ UNCHANGED <<run_coll, pc, call, rd, next_cleanup_time, fails_left, gave_up, found, aux>>

\* An operator tags the run with "abandon".
TagRun ==
    /\ \E r \in DOMAIN run_coll :
        /\ ~run_coll[r].abandon_tag
        /\ run_coll' = [run_coll EXCEPT ![r].abandon_tag = TRUE]
    /\ UNCHANGED <<now, pc, call, rd, next_cleanup_time, ticks_left, fails_left, gave_up, found, aux>>

\* No bootstrax process has been launched on ThisHost.
NoneLaunched ==
    /\ bs_coll = <<>>
    /\ alive = {}
    /\ boot_pc = [i \in Pids |-> "off"]
    /\ any_other_running = [i \in Pids |-> {}]
    /\ previous_entry = [i \in Pids |-> 0]
    /\ registered = {}

\* No run has failed repeatedly, and no processed run is being validated.
NeverFailed == fail_count = 0 /\ delays = <<>>
NothingValidated == val_pc = "exit" /\ val = <<>>

\* No target resolution is under way.
NothingResolved == tg_pc = "rest" /\ tg_in = <<>> /\ tg_out = <<>>

\* No resources are being inferred, and nothing is being killed.
NothingInferred == md_pc = "rest" /\ md_in = <<>> /\ md_out = <<>>
NothingKilled == kill_pc = "rest" /\ to_kill = <<>> /\ signals = <<>> /\ living = {}

\* No instance of SpecLoop runs.
NothingLooped ==
    /\ production = TRUE
    /\ loop_pc = "rest"
    /\ loop_local = <<>>
    /\ bs_state = "none"
    /\ online_monitor = {}
    /\ selected = {}

NothingCleaned ==
    /\ clean_pc = "rest"
    /\ run_doc = <<>>
    /\ disk = {}
    /\ strax_alive = FALSE
    /\ tagged_abandon = FALSE

NothingDecided == eb_pc = "rest" /\ eb_in = <<>> /\ eb_out = <<>>
NothingRefreshed == work_pc = "rest" /\ work = <<>>
NothingMore == NothingCleaned /\ NothingDecided /\ NothingRefreshed
NothingLate == NothingLooped /\ delete_thread = "none" /\ NothingMore
NothingElse == NothingResolved /\ NothingInferred /\ NothingKilled /\ NothingLate

\* The instances start their loop() at time t on a registry holding one run
\* that started, and that FormerHost last touched, at time 0.
Start(docs, t, ticks, fails) ==
    /\ NothingElse
    /\ now = t
    /\ ticks_left = ticks
    /\ fails_left = fails
    /\ gave_up = {}
    /\ found = [p \in Hosts |-> NoBootstrax]
    /\ NoneLaunched
    /\ NeverFailed
    /\ NothingValidated
    /\ \E bd \in docs :
         run_coll = [r \in {1} |->
             RunDoc(r, bd, 0, FALSE,
                    IF bd.state = "done" THEN {FormerHost} ELSE {})]
    /\ pc = [p \in Hosts |-> "find"]
    /\ call = [p \in Hosts |-> "new"]
    /\ rd = [p \in Hosts |-> NoRd]
    /\ next_cleanup_time = [p \in Hosts |-> t]

Init == Start(LeftBehind, 0, MaxTicks, MaxFailRuns)

Next ==
    \/ Tick
    \/ TagRun
    \/ \E p \in Hosts :
        \/ ConsiderClaim(p)
        \/ ConsiderNone(p)
        \/ ConsiderSet(p)
        \/ SweepFail(p)
        \/ AbandonGet(p)
        \/ AbandonSet(p)
        \/ ProcFail(p)
        \/ ProcStart(p)
        \/ PollBusy(p)
        \/ PollFail(p)
        \/ PollExit0(p)
        \/ ValidateFail(p)
        \/ ValidateFetch(p)
        \/ ChecksFail(p)
        \/ ChecksDone(p)

Spec == Init /\ [][Next]_vars

\* The same instances, started when the retry of a run that failed eight
\* times is due.
InitRetry == \E t \in TickSteps : Start(FailedBefore, t, RetryTicks, RetryFailRuns)

SpecRetry == InitRetry /\ [][Next]_vars

\* The same instances, one second after they entered loop(), on a run that
\* FormerHost has written as done, with or without an end (--ignore_checks)
\* and with or without processed data.
DoneBefore == [NoBootstrax EXCEPT !.state = "done", !.host = FormerHost, !.time = 0]

InitDone ==
    /\ NothingElse
    /\ now = 1
    /\ ticks_left = MaxTicks
    /\ fails_left = MaxFailRuns
    /\ gave_up = {}
    /\ found = [p \in Hosts |-> NoBootstrax]
    /\ NoneLaunched
    /\ NeverFailed
    /\ NothingValidated
    /\ \E end \in {absent, 0} : \E data \in {{}, {FormerHost}} :
         run_coll = [r \in {1} |-> RunDoc(r, DoneBefore, end, FALSE, data)]
    /\ pc = [p \in Hosts |-> "find"]
    /\ call = [p \in Hosts |-> "new"]
    /\ rd = [p \in Hosts |-> NoRd]
    /\ next_cleanup_time = [p \in Hosts |-> 0]

SpecDone == InitDone /\ [][Next]_vars

-----------------------------------------------------------------------------
(* Startup of the processes of one host: loop() up to set_state("starting"), *)
(* and the heartbeats that follow                                            *)

\* How far the clock may advance between two steps of the processes: less
\* than min_status_interval, more, and a day and 30 s.
HeartbeatSteps == {30, 90, 86430}

\* timedelta.seconds: the seconds of a duration with its whole days removed.
Seconds(duration) == duration % 86400

\* bs_coll.find_one({"host": hostname}, sort=[("_id", DESCENDING)]) as an
\* index into bs_coll, 0 for None.
LastEntry(host) ==
    LET entries == {k \in DOMAIN bs_coll : bs_coll[k].host = host}
    IN  IF entries = {} THEN 0 ELSE CHOOSE k \in entries : \A l \in entries : l <= k

\* An operator launches a bootstrax process on ThisHost.
Launch(i) ==
    /\ boot_pc[i] = "off"
    /\ alive' = alive \cup {i}
    /\ boot_pc' = [boot_pc EXCEPT ![i] = "scan"]
    /\ UNCHANGED <<now, ticks_left, besideStart, bs_coll, any_other_running,
                   previous_entry, registered>>

\* loop(): any_other_running = list(bs_coll.find({"host": hostname,
\* "pid": {"$ne": os.getpid()}}))
Scan(i) ==
    /\ i \in alive
    /\ boot_pc[i] = "scan"
    /\ any_other_running' =
         [any_other_running EXCEPT ![i] =
            {bs_coll[k].pid : k \in {l \in DOMAIN bs_coll :
                                       /\ bs_coll[l].host = ThisHost
                                       /\ bs_coll[l].pid # i}}]
    /\ boot_pc' = [boot_pc EXCEPT ![i] = "kill"]
    /\ UNCHANGED <<now, ticks_left, besideStart, bs_coll, alive, previous_entry,
                   registered>>

\* loop(): kill_process on every pid found that exists; the list is not used
\* again.
KillOthers(i) ==
    /\ i \in alive
    /\ boot_pc[i] = "kill"
    /\ alive' = alive \ any_other_running[i]
    /\ any_other_running' = [any_other_running EXCEPT ![i] = {}]
    /\ boot_pc' = [boot_pc EXCEPT ![i] = "find"]
    /\ UNCHANGED <<now, ticks_left, besideStart, bs_coll, previous_entry, registered>>

\* set_state: find the last message of this host.
SetStateFind(i) ==
    /\ i \in alive
    /\ boot_pc[i] = "find"
    /\ previous_entry' = [previous_entry EXCEPT ![i] = LastEntry(ThisHost)]
    /\ boot_pc' = [boot_pc EXCEPT ![i] = "write"]
    /\ UNCHANGED <<now, ticks_left, besideStart, bs_coll, alive, any_other_running,
                   registered>>

need_new_doc(previous, t) ==
    \/ previous = 0
    \/ Seconds(t - bs_coll[previous].time) > min_status_interval

\* set_state: insert a new document, or update the one found in place.  The
\* process goes on to its next set_state (send_heartbeat), which starts with
\* no previous_entry.
SetStateWrite(i) ==
    /\ i \in alive
    /\ boot_pc[i] = "write"
    /\ LET bootstrax_state == [host |-> ThisHost, pid |-> i, time |-> now] IN
       bs_coll' = IF need_new_doc(previous_entry[i], now)
                  THEN Append(bs_coll, bootstrax_state)
                  ELSE [bs_coll EXCEPT ![previous_entry[i]] = bootstrax_state]
    /\ registered' = registered \cup {i}
    /\ previous_entry' = [previous_entry EXCEPT ![i] = 0]
    /\ boot_pc' = [boot_pc EXCEPT ![i] = "find"]
    /\ UNCHANGED <<now, ticks_left, besideStart, alive, any_other_running>>

\* Time passes on ThisHost.
Wait ==
    /\ ticks_left > 0
    /\ \E d \in HeartbeatSteps : now' = now + d
    /\ ticks_left' = ticks_left - 1
    /\ UNCHANGED <<besideStart, startVars>>

\* The run collection at rest: one untouched run, no instance at work.
RunsAtRest ==
    /\ fails_left = 0
    /\ gave_up = {}
    /\ found = [p \in Hosts |-> NoBootstrax]
    /\ run_coll = [r \in {1} |-> RunDoc(r, NoBootstrax, 0, FALSE, {})]
    /\ pc = [p \in Hosts |-> "find"]
    /\ call = [p \in Hosts |-> "new"]
    /\ rd = [p \in Hosts |-> NoRd]
    /\ next_cleanup_time = [p \in Hosts |-> 0]

InitStart ==
    /\ NothingElse
    /\ now = 0
    /\ ticks_left = StartTicks
    /\ RunsAtRest
    /\ NoneLaunched
    /\ NeverFailed
    /\ NothingValidated

NextStart ==
    \/ Wait
    \/ \E i \in Pids :
        \/ Launch(i)
        \/ Scan(i)
        \/ KillOthers(i)
        \/ SetStateFind(i)
        \/ SetStateWrite(i)

SpecStart == InitStart /\ [][NextStart]_vars

\* C4: of the processes that have registered a heartbeat for the host, at
\* most one is still running.
C4_OnlyOneOnTheHost ==
    \A i \in registered \cap alive :
        \A j \in (registered \cap alive) : i = j

-----------------------------------------------------------------------------
(* One run that fails again and again: the delays of fail_run *)

\* Values of np.random.uniform(0.5, 1.5), in percent: the two ends of the
\* interval and its middle.
BackoffJitter == {50, 100, 150}

\* fail_run on a run doc whose n_failures is fail_count; set_run_state then
\* counts the failure.
FailAgain ==
    /\ fail_count < MaxFailures
    /\ \E jitter \in BackoffJitter :
         delays' = Append(delays, retry_delay(fail_count, jitter))
    /\ fail_count' = fail_count + 1
    /\ UNCHANGED <<now, ticks_left, runVars, startVars, valVars, restVars>>

InitBackoff ==
    /\ NothingElse
    /\ now = 0
    /\ ticks_left = 0
    /\ RunsAtRest
    /\ NoneLaunched
    /\ NeverFailed
    /\ NothingValidated

NextBackoff == FailAgain

SpecBackoff == InitBackoff /\ [][NextBackoff]_vars

\* C7: the delay fail_run adds at failure count n (delays[n + 1]) lies
\* between 0.5 and 1.5 times 60 s * 5^min(n, 3); a delay at a count n is no
\* larger than a delay at a count m with n < m <= 3; from count 3 on the
\* bounds are those of count 3.
C7_BackoffBounds ==
    /\ \A k \in DOMAIN delays :
        LET n == k - 1
            scale == IF n >= 3 THEN 125 ELSE 5 ^ n
        IN  /\ 30 * scale <= delays[k]
            /\ delays[k] <= 90 * scale
    /\ \A k \in DOMAIN delays : \A l \in DOMAIN delays :
        (k < l /\ l - 1 <= 3) => delays[k] <= delays[l]

\* The run has failed five times, with the longest delay drawn at count 0
\* and the shortest at count 1, and a delay drawn beyond count 3.
C7_Witness ==
    /\ Len(delays) = 5
    /\ delays[1] = 90
    /\ delays[2] = 150
    /\ delays[5] = 3750

-----------------------------------------------------------------------------
(* process_run from the exit of the child on: the checks before done *)
(* (production mode).  Times are milliseconds here.                   *)

\* The data types whose metadata process_run tries, in its order.
rr_types == <<"raw_records", "raw_records_he", "raw_records_mv", "raw_records_nv">>

\* Chunks of the metadata: n items, a filesize that may be missing, and a
\* first_time and last_endtime that may be missing.
Chunks ==
    [n : {0, 3}, filesize : {absent, 0, 9},
     first_time : {absent, 0}, last_endtime : {absent, 95000, 100000}]

\* The sequences over S of length 1 .. len.
RECURSIVE SeqsUpTo(_, _)
SeqsUpTo(S, len) ==
    IF len = 0 THEN {}
    ELSE {<<x>> : x \in S}
         \cup SeqsUpTo(S, len - 1)
         \cup {Append(q, x) : q \in SeqsUpTo(S, len - 1), x \in S}

\* What st.get_metadata can give for one data type: an exception, metadata
\* without chunks, or metadata with the given chunks.
Unreadable == [readable |-> FALSE, chunks |-> <<>>]
Md(chunks) == [readable |-> TRUE, chunks |-> chunks]

\* The metadata of the four data types; the he and mv types have no chunks.
Metadata(chunks) ==
    {[k \in DOMAIN rr_types |->
        IF rr_types[k] \in {"raw_records_he", "raw_records_mv"}
        THEN Md(<<>>) ELSE f[rr_types[k]]] :
     f \in [{"raw_records", "raw_records_nv"} ->
                {Unreadable, Md(<<>>), Md(chunks)}]}

\* The loop over rr_types from type k on: the metadata process_run is left
\* with.  An exception ends it; so does metadata whose first chunk has a
\* first_time and a last_endtime; otherwise it is the last one loaded.
RECURSIVE open_metadata(_, _)
open_metadata(mds, k) ==
    LET md == mds[k] IN
    IF ~md.readable THEN md
    ELSE IF /\ Len(md.chunks) > 0
            /\ md.chunks[1].first_time # absent
            /\ md.chunks[1].last_endtime # absent
         THEN md
    ELSE IF k = Len(mds) THEN md
    ELSE open_metadata(mds, k + 1)

\* The check without the condition on the file size.
chunk_failed_writing_unchecked(chunk) == FALSE

\* chunk["n"] and "filesize" in chunk and not chunk["filesize"]
chunk_failed_writing(chunk) ==
    chunk.n # 0 /\ chunk.filesize # absent /\ chunk.filesize = 0

\* The default of a missing first_time, "some ridiculous timestamp"; it
\* stands for 10e9 * 1e9 ns, which is beyond the integers of TLC.
ridiculous_timestamp == 2000000000

SetMax(S) == CHOOSE x \in S : \A y \in S : y <= x
SetMin(S) == CHOOSE x \in S : \A y \in S : x <= y

\* max of the last_endtime (default 0) minus min of the first_time.
t_covered(chunks) ==
    SetMax({Get(chunks[k].last_endtime, 0) : k \in DOMAIN chunks})
    - SetMin({Get(chunks[k].first_time, ridiculous_timestamp) : k \in DOMAIN chunks})

\* The start and the end of the run in the run doc: no end yet, or a run
\* that lasted as long as the chunks cover, 1 ms less than 5 s longer or
\* shorter, or exactly 5 s longer or shorter.
RunStart == 0
RunEnds == {absent, 95000, 95001, 100000, 104999}

\* The data docs a run doc can list: a host and whether the location exists
\* on the disk of ThisHost.
DataDocs == [host : {ThisHost, FormerHost}, on_disk : BOOLEAN]

\* check_data_written: no location of this host is missing, and there is at
\* least one.
check_data_written(data) ==
    /\ \A ddoc \in data : ddoc.host = ThisHost => ddoc.on_disk
    /\ \E ddoc \in data : ddoc.host = ThisHost

\* fail(reason): fail_run and the end of process_run.
Fail(reason, read) ==
    /\ val' = [read EXCEPT !.state = "failed", !.reason = reason]
    /\ val_pc' = "exit"

\* A poll finds that the child has exited, with exit code 0 or not.
PollExit ==
    /\ val_pc = "poll"
    /\ \E ec \in {0, 1} :
        LET read == [val EXCEPT !.ec = ec] IN
        IF ec # 0 THEN Fail("exit code", read)
        ELSE /\ val' = read
             /\ val_pc' = IF val.ignore_checks THEN "fetch" ELSE "metadata"
    /\ UNCHANGED <<now, ticks_left, runVars, startVars, backoffVars, restVars>>

\* --ignore_checks: only rd = get_run(...).
FetchOnly ==
    /\ val_pc = "fetch"
    /\ \E end \in RunEnds : val' = [val EXCEPT !.end = end]
    /\ val_pc' = "write"
    /\ UNCHANGED <<now, ticks_left, runVars, startVars, backoffVars, restVars>>

\* The metadata is opened and its chunks are checked.
OpenMetadata ==
    /\ val_pc = "metadata"
    /\ \E chunks \in SeqsUpTo(Chunks, MaxChunks) : \E mds \in Metadata(chunks) :
        LET md == open_metadata(mds, 1)
            read == [val EXCEPT !.md = md]
        IN
        IF ~md.readable THEN Fail("metadata not readable", read)
        ELSE IF Len(md.chunks) = 0 THEN Fail("no chunks", read)
        ELSE IF \E k \in DOMAIN md.chunks : chunk_failed_writing(md.chunks[k])
             THEN Fail("chunk failed writing", read)
        ELSE /\ val' = read
             /\ val_pc' = "end"
    /\ UNCHANGED <<now, ticks_left, runVars, startVars, backoffVars, restVars>>

\* rd = get_run(...); the run must have ended and the chunks must cover it.
CheckCoverage ==
    /\ val_pc = "end"
    /\ \E end \in RunEnds :
        LET read == [val EXCEPT !.end = end]
            covered == t_covered(val.md.chunks)
            run_duration == end - RunStart
        IN
        IF end = absent THEN Fail("not ended", read)
        ELSE IF ~(0 < covered) THEN Fail("covers", read)
        ELSE IF ~(/\ 0 - max_timetamp_diff * 1000 < run_duration - covered
                  /\ run_duration - covered < max_timetamp_diff * 1000)
             THEN Fail("covered", read)
        ELSE /\ val' = read
             /\ val_pc' = "files"
    /\ UNCHANGED <<now, ticks_left, runVars, startVars, backoffVars, restVars>>

\* all_files_saved(rd), with the data docs as they are when it gives up or
\* succeeds.
CheckFiles ==
    /\ val_pc = "files"
    /\ \E data \in SUBSET DataDocs :
        LET read == [val EXCEPT !.data = data] IN
        IF ~check_data_written(data) THEN Fail("not all files saved", read)
        ELSE /\ val' = read
             /\ val_pc' = "write"
    /\ UNCHANGED <<now, ticks_left, runVars, startVars, backoffVars, restVars>>

\* set_run_state(rd, "done", **info)
WriteDone ==
    /\ val_pc = "write"
    /\ val' = [val EXCEPT !.state = "done"]
    /\ val_pc' = "exit"
    /\ UNCHANGED <<now, ticks_left, runVars, startVars, backoffVars, restVars>>

\* process_run supervises the child of a busy run, with or without
\* --ignore_checks.
InitValidate ==
    /\ NothingElse
    /\ now = 0
    /\ ticks_left = 0
    /\ RunsAtRest
    /\ NoneLaunched
    /\ NeverFailed
    /\ val_pc = "poll"
    /\ \E ignore_checks \in BOOLEAN :
        val = [ignore_checks |-> ignore_checks, ec |-> absent, md |-> Md(<<>>),
               end |-> absent, data |-> {}, state |-> "busy", reason |-> "none"]

NextValidate ==
    \/ PollExit
    \/ FetchOnly
    \/ OpenMetadata
    \/ CheckCoverage
    \/ CheckFiles
    \/ WriteDone

SpecValidate == InitValidate /\ [][NextValidate]_vars

\* What C5 requires of a run written as done without --ignore_checks, the
\* file sizes apart.
DonePassedChecks ==
    /\ val.ec = 0
    /\ val.md.readable
    /\ Len(val.md.chunks) >= 1
    /\ val.end # absent
    /\ LET first == SetMin({Get(val.md.chunks[k].first_time, ridiculous_timestamp) :
                              k \in DOMAIN val.md.chunks})
           last == SetMax({Get(val.md.chunks[k].last_endtime, 0) :
                             k \in DOMAIN val.md.chunks})
           run_duration == val.end - RunStart
       IN  /\ last - first > 0
           /\ run_duration - (last - first) < 5000
           /\ (last - first) - run_duration < 5000
    /\ \A ddoc \in val.data : ddoc.host = ThisHost => ddoc.on_disk

WrittenDone == val_pc = "exit" /\ val.state = "done" /\ ~val.ignore_checks

\* C5 as stated: a run is written as done without --ignore_checks only after
\* exit code 0 and all checks, with every non-empty chunk having a recorded
\* file size.
C5_DoneOnlyAfterChecks ==
    WrittenDone =>
        /\ DonePassedChecks
        /\ \A k \in DOMAIN val.md.chunks :
            val.md.chunks[k].n # 0 =>
                (val.md.chunks[k].filesize # absent /\ val.md.chunks[k].filesize # 0)

\* C5 amended: ... with no non-empty chunk whose recorded file size is zero;
\* a chunk that records no file size at all passes.
C5_DoneOnlyAfterChecksOfRecordedSizes ==
    WrittenDone =>
        /\ DonePassedChecks
        /\ \A k \in DOMAIN val.md.chunks :
            (val.md.chunks[k].n # 0 /\ val.md.chunks[k].filesize # absent)
                => val.md.chunks[k].filesize # 0

\* A run written as done whose metadata has a non-empty chunk with a file
\* size and a non-empty chunk without one.
C5_Witness ==
    /\ WrittenDone
    /\ \E k \in DOMAIN val.md.chunks :
        val.md.chunks[k].n # 0 /\ val.md.chunks[k].filesize = 9
    /\ \E k \in DOMAIN val.md.chunks :
        val.md.chunks[k].n # 0 /\ val.md.chunks[k].filesize = absent

-----------------------------------------------------------------------------
(* The targets of one run: keep_target and infer_target, as process_run    *)
(* calls them between consider_run and the start of the strax child.       *)
(* A list of targets is a sequence of names; a pattern table is a sequence *)
(* of <<pattern, delete_after>> pairs in the order of the dict.            *)

\* fnmatch.fnmatch on names and patterns without ? and [ (case sensitive, as
\* on posix): * matches any run of characters, anything else itself.
RECURSIVE fnmatch(_, _)
fnmatch(name, pat) ==
    IF pat = "" THEN name = ""
    ELSE IF SubSeq(pat, 1, 1) = "*"
         THEN \/ fnmatch(name, Tail(pat))
              \/ (name # "" /\ fnmatch(Tail(name), pat))
         ELSE /\ name # ""
              /\ SubSeq(name, 1, 1) = SubSeq(pat, 1, 1)
              /\ fnmatch(Tail(name), Tail(pat))

\* Python's `sub in text' on strings.
InStr(sub, text) ==
    \E i \in 1 .. (Len(text) - Len(sub) + 1) : SubSeq(text, i, i + Len(sub) - 1) = sub

\* Python's `x in list'.
InList(x, list) == \E i \in 1 .. Len(list) : list[i] = x

remove_target_after_fails ==
    << <<"event*", 2>>, <<"corrected_areas", 2>>, <<"energy_estimates", 2>>,
       <<"distinct_channels", 2>>, <<"*pos*", 3>>, <<"individual_peak*", 3>>,
       <<"online_monitor_*v", 3>>, <<"peak_*", 4>>, <<"online_peak*", 4>>,
       <<"*hit*", 4>>, <<"veto_*", 4>>, <<"*pulse*", 4>>, <<"led_*", 4>>,
       <<"ext_timings_nv", 4>>, <<"merged_s2s*", 5>>, <<"peak*", 6>>,
       <<"lone_*", 6>>, <<"detector_time_*", 6>>, <<"*", 7>> >>

\* The inner for loop of keep_target breaks on target_name: some pattern of
\* the table matches it and has a delete_after below n_fails.
removed(target_name, compare_with, n_fails) ==
    \E i \in 1 .. Len(compare_with) :
        /\ n_fails > compare_with[i][2]
        /\ fnmatch(target_name, compare_with[i][1])

\* keep_target that always adds raw_records to what it kept.
keep_target_always_raw(targets, compare_with, n_fails) ==
    SelectSeq(targets, LAMBDA t : ~removed(t, compare_with, n_fails)) \o <<"raw_records">>

\* keep_target that looks no further than the first pattern matching the name.
keep_target_first_match(targets, compare_with, n_fails) ==
    LET first(t) == CHOOSE i \in 1 .. Len(compare_with) :
                        /\ fnmatch(t, compare_with[i][1])
                        /\ \A j \in 1 .. (i - 1) : ~fnmatch(t, compare_with[j][1])
        matched(t) == \E i \in 1 .. Len(compare_with) : fnmatch(t, compare_with[i][1])
        kept_targets == SelectSeq(targets,
                            LAMBDA t : ~(matched(t) /\ n_fails > compare_with[first(t)][2]))
    IN  IF kept_targets = <<>> THEN <<"raw_records">> ELSE kept_targets

keep_target(targets, compare_with, n_fails) ==
    LET kept_targets == SelectSeq(targets, LAMBDA t : ~removed(t, compare_with, n_fails))
    IN  IF kept_targets = <<>> THEN <<"raw_records">> ELSE kept_targets

\* _remove_veto_from_t: keep_target once per suffix of `remove', on a table
\* with the one pattern *suffix; with _flip, the targets this took away.
RECURSIVE remove_each(_, _)
remove_each(targets, remove) ==
    IF remove = <<>> THEN targets
    ELSE remove_each(keep_target(targets, << <<"*" \o Head(remove), 0>> >>, 1), Tail(remove))

remove_veto_from_t(targets, remove, flip) ==
    LET left == remove_each(targets, remove)
    IN  IF flip THEN SelectSeq(targets, LAMBDA t : ~InList(t, left)) ELSE left

keep_veto_from_t(targets, keep) ==
    LET vetoes == remove_veto_from_t(targets, keep, TRUE)
    IN  IF Len(vetoes) = 0 THEN <<"raw_records">> ELSE vetoes

\* No mode counts as an LED mode.
led_modes_none == {}

led_modes == {"pmtgain"}
ap_modes == {"pmtap"}
nv_ref_mon == {"nVeto_LASER_calibration"}
diagnostic_modes == {"exttrig", "noise", "mv_diffuserballs", "mv_fibres", "mv_darkrate"}

\* len(set(check)) == len(check)
NoDuplicates(check) == Cardinality({check[i] : i \in 1 .. Len(check)}) = Len(check)

\* infer_target on the arguments and the run doc of a: the pruning after
\* failures, the override by the mode, the filter by the detectors, the
\* fallback on raw_records and the check for duplicates.  `raised' stands
\* for the ValueError.
infer_from_run(a) ==
    LET n_fails == a.n_failures
        pruned == IF n_fails # 0
                  THEN [t |-> keep_target(a.targets, remove_target_after_fails, n_fails),
                        p |-> keep_target(a.post_process, remove_target_after_fails, n_fails)]
                  ELSE [t |-> a.targets, p |-> a.post_process]
        any_in(modes) == \E m \in modes : InStr(m, a.mode)
        by_mode ==
            IF any_in(led_modes) THEN [t |-> <<"led_calibration">>, p |-> <<"raw_records">>]
            ELSE IF any_in(ap_modes) THEN [t |-> <<"afterpulses">>, p |-> <<"raw_records">>]
            ELSE IF any_in(nv_ref_mon) THEN [t |-> <<"ref_mon_nv">>, p |-> <<"raw_records">>]
            ELSE IF any_in(diagnostic_modes)
                 THEN [t |-> <<"raw_records">>, p |-> <<"raw_records">>]
            ELSE IF InStr("kr83m", a.mode) /\ (Len(pruned.t) # 0 \/ Len(pruned.p) # 0)
                 THEN IF InList("event_info", pruned.t) \/ InList("event_info", pruned.p)
                      THEN [pruned EXCEPT !.t = @ \o <<"event_info_double">>]
                      ELSE pruned
            ELSE IF InStr("ambe", a.mode) /\ a.ambe.name # "default"
                 THEN [t |-> a.ambe.targets, p |-> a.ambe.post_process]
            ELSE pruned
        keep == (IF "neutron_veto" \in a.detectors THEN <<"_nv">> ELSE <<>>)
                    \o (IF "muon_veto" \in a.detectors THEN <<"_mv">> ELSE <<>>)
        remove == (IF "neutron_veto" \in a.detectors THEN <<>> ELSE <<"_nv">>)
                    \o (IF "muon_veto" \in a.detectors THEN <<>> ELSE <<"_mv">>)
        by_det ==
            IF "tpc" \notin a.detectors
            THEN [t |-> keep_veto_from_t(by_mode.t, keep),
                  p |-> keep_veto_from_t(by_mode.p, keep)]
            ELSE [t |-> remove_each(by_mode.t, remove),
                  p |-> remove_each(by_mode.p, remove)]
        targets == IF Len(by_det.t) = 0 THEN <<"raw_records">> ELSE by_det.t
        post_process == IF Len(by_det.p) = 0 THEN <<"raw_records">> ELSE by_det.p
    IN  [raised |-> ~(NoDuplicates(targets) /\ NoDuplicates(post_process)),
         targets |-> targets,
         post_processing |-> post_process]

\* infer_target that prunes and overrides under --fix_target as well.
infer_target_ignoring_fix(a) == infer_from_run(a)

infer_target(a) ==
    IF a.fix_target
    THEN [raised |-> FALSE, targets |-> a.targets, post_processing |-> a.post_process]
    ELSE infer_from_run(a)

\* The inputs of SpecTargets.
Lists(names, n) == UNION {[1 .. k -> names] : k \in 0 .. n}
TargetNames == {"event_info", "events_nv", "online_peak_monitor", "raw_records"}
PostLists == {<<>>, <<"veto_intervals">>, <<"event_info">>,
              <<"veto_intervals", "veto_intervals">>}
FailCounts == {0, 1, 3, 8}
Modes == {"tpc_commissioning", "tpc_pmtgain", "tpc_kr83m", "mv_darkrate", "ambe_linked"}
Detectors == {{"tpc"}, {"tpc", "neutron_veto", "muon_veto"}, {"neutron_veto"}, {}}
NoAmbe == [name |-> "default", targets |-> <<>>, post_process |-> <<>>]
AmbeModes == {NoAmbe, [name |-> "high_rate", targets |-> <<"peak_basics">>, post_process |-> <<>>]}
Tables ==
    { remove_target_after_fails,
      << <<"event*", 2>>, <<"*", 7>> >>,
      << <<"event_info", 5>>, <<"event*", 2>>, <<"raw*", 0>> >> }

\* process_run has been handed a run that consider_run just claimed.
InitTargets ==
    /\ now = 0
    /\ ticks_left = 0
    /\ RunsAtRest
    /\ NoneLaunched
    /\ NeverFailed
    /\ NothingValidated
    /\ NothingLate
    /\ NothingInferred
    /\ NothingKilled
    /\ tg_pc = "claimed"
    /\ \E targets \in Lists(TargetNames, MaxTargets) :
       \E post_process \in PostLists :
       \E n \in FailCounts : \E fix \in BOOLEAN :
       \E mode \in Modes : \E detectors \in Detectors :
       \E ambe \in IF InStr("ambe", mode) THEN AmbeModes ELSE {NoAmbe} :
         tg_in = [targets |-> targets, post_process |-> post_process,
                  fix_target |-> fix, n_failures |-> n, mode |-> mode,
                  detectors |-> detectors, ambe |-> ambe]
    /\ tg_out = [state |-> "considering", n_failures |-> tg_in.n_failures]

beside_targets == <<now, ticks_left, runVars, startVars, backoffVars, valVars, tg_in,
                    mdVars, killVars, lateVars>>

\* keep_target on the configured targets, for some table.
Prune ==
    /\ tg_pc = "claimed"
    /\ \E compare_with \in Tables :
         tg_out' = [state |-> tg_out.state, n_failures |-> tg_out.n_failures,
                    compare_with |-> compare_with,
                    kept |-> keep_target(tg_in.targets, compare_with, tg_in.n_failures)]
    /\ tg_pc' = "pruned"
    /\ UNCHANGED beside_targets

\* keep_target on what the first call kept, same table and count.
PruneAgain ==
    /\ tg_pc = "pruned"
    /\ tg_out' = [state |-> tg_out.state, n_failures |-> tg_out.n_failures,
                  compare_with |-> tg_out.compare_with,
                  kept |-> tg_out.kept,
                  kept_again |-> keep_target(tg_out.kept, tg_out.compare_with,
                                             tg_in.n_failures)]
    /\ tg_pc' = "pruned_again"
    /\ UNCHANGED beside_targets

\* process_run: infer_target returns, run_strax_config takes its lists and
\* the child is started with them.
Resolve ==
    /\ tg_pc = "claimed"
    /\ ~infer_target(tg_in).raised
    /\ tg_out' = [state |-> tg_out.state, n_failures |-> tg_out.n_failures,
                  targets |-> infer_target(tg_in).targets,
                  post_processing |-> infer_target(tg_in).post_processing]
    /\ tg_pc' = "started"
    /\ UNCHANGED beside_targets

\* process_run: infer_target raises ValueError, which is not a RunFailed:
\* the exception leaves process_run and loop() with the run doc untouched.
ResolveRaises ==
    /\ tg_pc = "claimed"
    /\ infer_target(tg_in).raised
    /\ tg_pc' = "raised"
    /\ UNCHANGED <<tg_out, beside_targets>>

\* main(): with --undying the exception is logged and run() starts again
\* after a minute, without it the process ends.
MainCatches ==
    /\ tg_pc = "raised"
    /\ \E undying \in BOOLEAN :
         tg_pc' = IF undying THEN "restarted" ELSE "terminated"
    /\ UNCHANGED <<tg_out, beside_targets>>

NextTargets == Prune \/ PruneAgain \/ Resolve \/ ResolveRaises \/ MainCatches

SpecTargets == InitTargets /\ [][NextTargets]_vars

-----------------------------------------------------------------------------
(* The resources of one run: infer_mode and infer_records_compressor, as    *)
(* process_run calls them before it starts the strax child.  Rates are      *)
(* whole MB/s; the chunk length is in tenths of a second.                   *)

\* The benchmark of infer_mode; None is `absent'.
benchmark ==
    [mbs |-> <<0, 70, 90, 110, 150, 220, 290, 360, 390, 420, 500, 550>>,
     cores_old |-> <<39, 35, 35, 30, 30, 20, 12, 12, 10, 10, 10, 8>>,
     cores |-> <<24, 24, 24, 24, 18, 15, 15, 15, 15, 15, 15, 10>>,
     max_messages_old |-> <<20, 20, 15, 15, 10, 10, 10, 10, 10, 10, 8, 6>>,
     max_messages |-> <<60, 60, 35, 30, 25, 25, 25, 25, 20, 15, 12, 12>>,
     timeout |-> <<1200, 1200, absent, absent, absent, absent, absent, absent,
                   absent, absent, absent, 2400>>]

\* The rows of the benchmark in which the column has a value, at or below and
\* at or above a rate.
RowsBelow(column, data_rate) ==
    {i \in 1 .. Len(column) : column[i] # absent /\ benchmark.mbs[i] <= data_rate}
RowsAbove(column, data_rate) ==
    {i \in 1 .. Len(column) : column[i] # absent /\ benchmark.mbs[i] >= data_rate}

\* interpolate that draws the line through the first and the last row.
interpolate_end_to_end(column, data_rate) ==
    LET n == Len(column)
    IN  (column[1] * benchmark.mbs[n] + (column[n] - column[1]) * data_rate)
            \div benchmark.mbs[n]

\* df.interpolate(method="index") on the benchmark with a row for data_rate,
\* then int(df.loc[data_rate]): the value of the row if it has one, the value
\* on the line between the nearest rows that have one otherwise, truncated.
interpolate(column, data_rate) ==
    LET lo == SetMax(RowsBelow(column, data_rate))
        hi == SetMin(RowsAbove(column, data_rate))
        x0 == benchmark.mbs[lo]
    IN  IF RowsAbove(column, data_rate) = {} \/ lo = hi THEN column[lo]
        ELSE (column[lo] * (benchmark.mbs[hi] - x0)
                + (column[hi] - column[lo]) * (data_rate - x0))
             \div (benchmark.mbs[hi] - x0)

\* np.clip
clip(v, lo, hi) == IF v < lo THEN lo ELSE IF v > hi THEN hi ELSE v

\* The pairs <<n, value>> for which the double value / 1.1**n lies just below
\* the whole number that value * 10^n / 11^n is (n <= 6, value < 130).
float_short == {<<1, 33>>, <<1, 55>>, <<1, 66>>, <<1, 99>>, <<1, 110>>, <<2, 121>>}

\* np.clip(value * (1.1**n_fails), lo, hi).astype(int)
raised(value, n_fails, lo, hi) ==
    clip((value * 11 ^ n_fails) \div (10 ^ n_fails), lo, hi)

\* The resources grow with the failures as the timeout does.
lowered_like_timeout(value, n_fails, lo, hi) == raised(value, n_fails, lo, hi)

\* np.clip(value / (1.1**n_fails), lo, hi).astype(int)
lowered(value, n_fails, lo, hi) ==
    LET q == (value * 10 ^ n_fails) \div (11 ^ n_fails)
    IN  clip(IF <<n_fails, value>> \in float_short THEN q - 1 ELSE q, lo, hi)

\* infer_records_compressor that does not look at the rate before the size.
infer_records_compressor_by_size(a, datarate, n_fails) ==
    IF n_fails # 0 THEN (IF n_fails > 1 THEN "lz4" ELSE "zstd")
    ELSE IF datarate * a.chunk_length > 1800 * 10 THEN "lz4"
    ELSE "zstd"

infer_records_compressor(a, datarate, n_fails) ==
    IF n_fails # 0 THEN (IF n_fails > 1 THEN "lz4" ELSE "zstd")
    ELSE IF datarate < 65 THEN "zstd"
    ELSE IF datarate * a.chunk_length > 1800 * 10 THEN "lz4"
    ELSE "zstd"

\* infer_mode, from the data rate it has read (0 when it found none) on.
infer_mode(a) ==
    LET by_table == a.rate # 0 /\ a.infer_mode
        data_rate == IF by_table /\ InStr("ambe", a.mode) THEN 550 ELSE a.rate
        cores == IF a.is_new_eb THEN benchmark.cores ELSE benchmark.cores_old
        max_messages == IF a.is_new_eb THEN benchmark.max_messages
                        ELSE benchmark.max_messages_old
        result == IF by_table
                  THEN [cores |-> interpolate(cores, data_rate),
                        max_messages |-> interpolate(max_messages, data_rate),
                        timeout |-> interpolate(benchmark.timeout, data_rate)]
                  ELSE [cores |-> a.cores, max_messages |-> a.max_messages,
                        timeout |-> 1000]
        n_fails == IF a.fix_resources THEN 0 ELSE a.n_failures
    IN  [cores |-> IF n_fails # 0 THEN lowered(result.cores, n_fails, 4, 40)
                   ELSE result.cores,
         max_messages |-> IF n_fails # 0 THEN lowered(result.max_messages, n_fails, 4, 100)
                          ELSE result.max_messages,
         timeout |-> IF n_fails # 0 THEN raised(result.timeout, n_fails, 500, 3600)
                     ELSE result.timeout,
         records_compressor |-> infer_records_compressor(a, data_rate, n_fails)]

\* The inputs of SpecMode.
Rates == {0, 35, 70, 74, 80, 90, 100, 110, 130, 149, 150, 200, 220, 290, 330, 360,
          390, 420, 500, 520, 550}
CoreArgs == {2, 8, 33}
MessageArgs == {3, 10}
ChunkLengths == {55, 600}

\* process_run is about to call infer_mode for a run with a known data rate.
InitMode ==
    /\ now = 0
    /\ ticks_left = 0
    /\ RunsAtRest
    /\ NoneLaunched
    /\ NeverFailed
    /\ NothingValidated
    /\ NothingLate
    /\ NothingResolved
    /\ NothingKilled
    /\ md_pc = "claimed"
    /\ md_in \in [rate : Rates, infer_mode : BOOLEAN, fix_resources : BOOLEAN,
                  n_failures : 0 .. MaxPriorFails, is_new_eb : BOOLEAN,
                  mode : {"tpc_commissioning", "ambe_linked"},
                  cores : CoreArgs, max_messages : MessageArgs,
                  chunk_length : ChunkLengths]
    /\ md_out = <<>>

\* process_run: run_strax_config.update(infer_mode(rd))
InferMode ==
    /\ md_pc = "claimed"
    /\ md_out' = infer_mode(md_in)
    /\ md_pc' = "inferred"
    /\ UNCHANGED <<now, ticks_left, runVars, startVars, backoffVars, valVars, tgVars,
                   killVars, lateVars, md_in>>

NextMode == InferMode

SpecMode == InitMode /\ [][NextMode]_vars

-----------------------------------------------------------------------------
(* process_run kills the strax child on a fatal condition: kill_process and *)
(* the fail() that follows it.  The child has pid StraxPid; its descendants *)
(* may exit by themselves at any time.                                      *)

StraxPid == 1
Descendants == 2 .. (1 + MaxDescendants)
KillSteps == {1, signal_escalate}

\* The pids of S in increasing order.
RECURSIVE InOrder(_)
InOrder(S) == IF S = {} THEN <<>> ELSE <<SetMin(S)>> \o InOrder(S \ {SetMin(S)})

\* process_run has found the child running (exitcode None) and one of its
\* three fatal conditions true.
InitKill ==
    /\ now = 0
    /\ ticks_left = KillTicks
    /\ RunsAtRest
    /\ NoneLaunched
    /\ NeverFailed
    /\ NothingValidated
    /\ NothingLate
    /\ NothingResolved
    /\ NothingInferred
    /\ kill_pc = "fatal"
    /\ to_kill = <<>>
    /\ signals = <<>>
    /\ \E children \in SUBSET Descendants : living = {StraxPid} \cup children

beside_kill == <<runVars, startVars, backoffVars, valVars, tgVars, mdVars, lateVars>>

\* child.kill(), parent.kill() and os.kill(pid, signal.SIGKILL): the signal
\* is sent; the process is gone at once, or it outlives the call (the case
\* for which kill_process ends with its pid_exists test).
Send(pid, signal) ==
    /\ signals' = Append(signals, <<pid, signal, now>>)
    /\ living' \in {living \ {pid}, living}

\* kill_process: pid_exists, Process(pid), parent.children(recursive=True)
KillStart ==
    /\ kill_pc = "fatal"
    /\ IF StraxPid \in living
       THEN kill_pc' = "children" /\ to_kill' = InOrder(living \ {StraxPid})
       ELSE kill_pc' = "fail" /\ to_kill' = <<>>
    /\ UNCHANGED <<now, ticks_left, signals, living, beside_kill>>

\* kill_process: child.kill() for the next descendant; psutil raises
\* NoSuchProcess, which nothing catches, when it is gone.
KillChild ==
    /\ kill_pc = "children"
    /\ to_kill # <<>>
    /\ IF Head(to_kill) \in living
       THEN Send(Head(to_kill), "SIGKILL") /\ to_kill' = Tail(to_kill)
                /\ UNCHANGED kill_pc
       ELSE kill_pc' = "raised" /\ UNCHANGED <<to_kill, signals, living>>
    /\ UNCHANGED <<now, ticks_left, beside_kill>>

\* kill_process: parent.kill()
KillParent ==
    /\ kill_pc = "children"
    /\ to_kill = <<>>
    /\ Send(StraxPid, "SIGKILL")
    /\ kill_pc' = "again"
    /\ UNCHANGED <<now, ticks_left, to_kill, beside_kill>>

\* kill_process: os.kill(pid, signal.SIGKILL) and the last pid_exists,
\* which only logs "Could not kill process" and returns.
KillAgain ==
    /\ kill_pc = "again"
    /\ Send(StraxPid, "SIGKILL")
    /\ kill_pc' = "fail"
    /\ UNCHANGED <<now, ticks_left, to_kill, beside_kill>>

\* process_run: fail(reason) after kill_process
FailKilled ==
    /\ kill_pc = "fail"
    /\ kill_pc' = "failed"
    /\ UNCHANGED <<now, ticks_left, to_kill, signals, living, beside_kill>>

\* A descendant of the child exits by itself.
Exits ==
    /\ kill_pc \in {"fatal", "children"}
    /\ \E c \in living \ {StraxPid} : living' = living \ {c}
    /\ UNCHANGED <<now, ticks_left, kill_pc, to_kill, signals, beside_kill>>

\* The clock advances during the kill.
TickKill ==
    /\ kill_pc \in {"fatal", "children", "again", "fail"}
    /\ ticks_left > 0
    /\ \E d \in KillSteps : now' = now + d
    /\ ticks_left' = ticks_left - 1
    /\ UNCHANGED <<kill_pc, to_kill, signals, living, beside_kill>>

NextKill ==
    KillStart \/ KillChild \/ KillParent \/ KillAgain \/ FailKilled \/ Exits \/ TickKill

SpecKill == InitKill /\ [][NextKill]_vars

-----------------------------------------------------------------------------
(* process_run from the start of the strax child to its exit: the poll *)
(* loop (production mode).  Times are seconds.                          *)

\* timeouts[...]
max_processing_time == 259200
max_processing_time_after_completion == 46800
max_no_write_time == 1800
check_on_strax == 10

\* The executions of process_run and the clock advances of one behaviour.
MaxExecutions == 2
SuperviseTicks == 3

\* How far the clock advances between two steps: the sleep of one poll, or
\* long enough to pass one of the three ceilings.
SuperviseSteps == {check_on_strax, 2000, 47000, 260000}

\* When the supervision starts, and the end of a run that ended before.
SuperviseStart == 100000
EndedBefore == 50000

\* exception_tempfile: missing, or the file the child of execution `by`
\* opened, empty or holding its formatted exception.
NoFile == [exists |-> FALSE, text |-> "", by |-> 0]
FileOf(by, text) == [exists |-> TRUE, text |-> text, by |-> by]

NoTraceback == [text |-> "none", by |-> 0]

\* The file is left where it is.
exception_tempfile_kept(file) == file

\* if osp.exists(exception_tempfile): os.remove(exception_tempfile)
exception_tempfile_removed(file) == NoFile

\* exc_info, as process_run reads it after a non-zero exit code.
exc_info(file) ==
    IF ~file.exists
    THEN [text |-> "[No exception info known, exception file not found?!]", by |-> 0]
    ELSE IF file.text = ""
    THEN [text |-> "[No exception info known, exception file was empty?!]", by |-> 0]
    ELSE [text |-> file.text, by |-> file.by]

\* t0 < now(-timeouts["max_processing_time"])
took_too_long(t0, t) == t0 < t - max_processing_time

\* The check without the condition on the age of the end of the run.
not_done_after_completion_whenever_ended(t0, endtime, t) ==
    /\ endtime # absent
    /\ t0 < t - max_processing_time_after_completion

\* endtime is not None and endtime < now(-...) and t0 < now(-...)
not_done_after_completion(t0, endtime, t) ==
    /\ endtime # absent
    /\ endtime < t - max_processing_time_after_completion
    /\ t0 < t - max_processing_time_after_completion

\* t0 < now(-max_no_write_time) and last_write < now(-max_no_write_time)
wrote_nothing(t0, last_write, t) ==
    /\ t0 < t - max_no_write_time
    /\ last_write < t - max_no_write_time

beside_supervise == <<runVars, startVars, backoffVars, restVars>>

\* clean_run, the removal of the exception file, strax_proc.start().
StartStrax ==
    /\ val_pc = "start"
    /\ val.execution < MaxExecutions
    /\ val' = [val EXCEPT !.exception_tempfile = exception_tempfile_removed(@),
                          !.execution = @ + 1,
                          !.t0 = now,
                          !.last_write = 0,
                          !.ec = absent,
                          !.killed = FALSE,
                          !.reason = "none",
                          !.error_traceback = NoTraceback]
    /\ val_pc' = "poll"
    /\ UNCHANGED <<now, ticks_left, beside_supervise>>

\* The child writes a file of the run.
StraxWrites ==
    /\ val_pc = "poll"
    /\ val.ec = absent
    /\ val.last_write # now
    /\ val' = [val EXCEPT !.last_write = now]
    /\ UNCHANGED <<val_pc, now, ticks_left, beside_supervise>>

\* run_strax ends: with exit code 0; or with an exception it has written to
\* the exception file; or it dies before it has written the file (ping_dbs
\* and clear_shm are outside the try, a signal ends it), leaving no file or
\* an empty one.
StraxExits ==
    /\ val_pc = "poll"
    /\ val.ec = absent
    /\ \/ val' = [val EXCEPT !.ec = 0]
       \/ \E text \in {"", "traceback"} :
            val' = [val EXCEPT !.ec = 1,
                               !.exception_tempfile = FileOf(val.execution, text)]
       \/ val' = [val EXCEPT !.ec = 1]
    /\ UNCHANGED <<val_pc, now, ticks_left, beside_supervise>>

\* The DAQ ends the run: the run doc gets its end.
DaqEndsRun ==
    /\ val.end = absent
    /\ val' = [val EXCEPT !.end = now]
    /\ UNCHANGED <<val_pc, now, ticks_left, beside_supervise>>

\* A poll with strax_proc.exitcode None: the three ceilings in their order,
\* each with kill_process and fail(...); otherwise the run is set busy.
PollAlive ==
    /\ val_pc = "poll"
    /\ val.ec = absent
    /\ LET killed == [val EXCEPT !.killed = TRUE] IN
       IF took_too_long(val.t0, now)
       THEN Fail("Processing took longer", killed)
       ELSE IF not_done_after_completion(val.t0, val.end, now)
       THEN Fail("After the run ended, processing did not succeed", killed)
       ELSE IF wrote_nothing(val.t0, val.last_write, now)
       THEN Fail("No data written", killed)
       ELSE /\ val' = [val EXCEPT !.state = "busy"]
            /\ val_pc' = "poll"
    /\ UNCHANGED <<now, ticks_left, beside_supervise>>

\* A poll that finds exit code 0 goes on to the checks of the data; one that
\* finds another exit code reads the exception file and fails the run.
PollExited ==
    /\ val_pc = "poll"
    /\ val.ec # absent
    /\ IF val.ec = 0
       THEN /\ val' = val
            /\ val_pc' = "exit"
       ELSE Fail("Strax exited with exit code",
                 [val EXCEPT !.error_traceback = exc_info(val.exception_tempfile)])
    /\ UNCHANGED <<now, ticks_left, beside_supervise>>

\* The failed run is claimed again and process_run starts over.
ProcessAgain ==
    /\ val_pc = "exit"
    /\ val.state = "failed"
    /\ val.execution < MaxExecutions
    /\ val' = [val EXCEPT !.state = "considering"]
    /\ val_pc' = "start"
    /\ UNCHANGED <<now, ticks_left, beside_supervise>>

TickSupervise ==
    /\ ticks_left > 0
    /\ val_pc = "poll"
    /\ \E d \in SuperviseSteps : now' = now + d
    /\ ticks_left' = ticks_left - 1
    /\ UNCHANGED <<val_pc, val, beside_supervise>>

\* One claimed run, ended or not, and the exception file an earlier
\* bootstrax may have left in the working directory.
InitSupervise ==
    /\ NothingElse
    /\ now = SuperviseStart
    /\ ticks_left = SuperviseTicks
    /\ RunsAtRest
    /\ NoneLaunched
    /\ NeverFailed
    /\ val_pc = "start"
    /\ \E end \in {absent, EndedBefore} : \E file \in {NoFile, FileOf(0, "traceback")} :
        val = [execution |-> 0, t0 |-> absent, end |-> end, last_write |-> 0,
               ec |-> absent, killed |-> FALSE, state |-> "considering",
               reason |-> "none", error_traceback |-> NoTraceback,
               exception_tempfile |-> file]

NextSupervise ==
    \/ StartStrax
    \/ StraxWrites
    \/ StraxExits
    \/ DaqEndsRun
    \/ PollAlive
    \/ PollExited
    \/ ProcessAgain
    \/ TickSupervise

SpecSupervise == InitSupervise /\ [][NextSupervise]_vars

-----------------------------------------------------------------------------
(* loop() of one instance on ThisHost, in production or in test mode: the *)
(* disk guard, the claims, ping_dbs and cleanup_db.  The instance is the  *)
(* only one that runs, so a claim and the processing of a run are one     *)
(* step each.  ThisHost is one of eb3-5, for which eb_can_process() is    *)
(* always true.                                                            *)

wait_diskspace_max_space_percent == 95
wait_diskspace_max_space_percent_testing == 80
min_disk_space_tb == 1
wait_diskspace_dt == 10
idle_nap == 10
dead_state == "dead_bootstrax"

\* The checks sufficient_diskspace makes before it gives up; it stands for
\* wait_diskspace_n_max, which is 60 * 24 * 7 in the source.
MaxDiskChecks == 3

\* The sleeps of one behaviour, the runs of the registry, and the time at
\* which loop() starts.
LoopTicks == 4
LoopRuns == {1, 2, 3}
LoopStart == 1000

\* What disk_usage(output_folder) can report: percent used and TB free.
DiskPct == {79, 80, 94, 95}
DiskFree == {1, 2}

\* Test mode lowers the high-water mark.
max_space_percent(prod) ==
    IF prod THEN wait_diskspace_max_space_percent
    ELSE wait_diskspace_max_space_percent_testing

\* The check without the floor of the free space.
sufficient_by_percentage(disk_pct, disk_free, prod) == disk_pct < max_space_percent(prod)

\* disk_pct < wait_diskspace_max_space_percent and disk_free > min_disk_space_tb
sufficient(disk_pct, disk_free, prod) ==
    /\ disk_pct < max_space_percent(prod)
    /\ disk_free > min_disk_space_tb

\* run_coll.find(query, sort=[("start", pymongo.DESCENDING)]) on the runs S.
RECURSIVE rds(_)
rds(S) ==
    IF S = {} THEN <<>>
    ELSE LET r == CHOOSE r \in S : \A o \in S : run_coll[o].start <= run_coll[r].start
         IN  <<r>> \o rds(S \ {r})

\* The run consider_run returns, 0 for None.  Production: the most recently
\* started match.  Test mode: rds[test_counter], None on an IndexError.
consider_run(q, test_counter) ==
    IF production
    THEN IF Candidates(q, now) = {} THEN 0 ELSE FirstMatch(q, now)
    ELSE IF test_counter + 1 \in DOMAIN rds(Candidates(q, now))
         THEN rds(Candidates(q, now))[test_counter + 1]
         ELSE 0

\* What consider_run leaves of run r in the run collection: in production
\* the two updates of the claim, in test mode nothing.
Considered(r) ==
    IF production /\ r # 0
    THEN [run_coll EXCEPT ![r].bootstrax =
            set_run_state([@ EXCEPT !.state = "considering"], "considering",
                          ThisHost, now, <<>>)]
    ELSE run_coll

\* clean_run on the documents docs: _delete_data pulls the data of this
\* host from the run doc, in either mode.
clean_run(docs, r) == [docs EXCEPT ![r].data = @ \ {ThisHost}]

beside_run == <<pc, call, rd, next_cleanup_time, fails_left, gave_up, found,
                startVars, backoffVars, valVars, tgVars, mdVars, killVars, moreVars>>
beside_loop == <<beside_run, delete_thread>>

\* sufficient_diskspace finds enough space; loop() goes on with
\* set_state("busy").
DiskSufficient ==
    /\ loop_pc = "disk"
    /\ \E disk_pct \in DiskPct : \E disk_free \in DiskFree :
        /\ sufficient(disk_pct, disk_free, production)
        /\ loop_local' = [loop_local EXCEPT !.disk_pct = disk_pct,
                                            !.disk_free = disk_free, !.i = 0,
                                            !.claimed = {}]
    /\ bs_state' = "busy"
    /\ loop_pc' = "new"
    /\ UNCHANGED <<now, ticks_left, run_coll, production, online_monitor, selected,
                   beside_loop>>

\* One check of sufficient_diskspace that does not find enough space: the
\* sleep and the "disk full" heartbeat; after the last one, the dead state
\* and the RuntimeError.
DiskInsufficient ==
    /\ loop_pc = "disk"
    /\ ticks_left > 0
    /\ \E disk_pct \in DiskPct : \E disk_free \in DiskFree :
        /\ ~sufficient(disk_pct, disk_free, production)
        /\ loop_local' = [loop_local EXCEPT !.disk_pct = disk_pct,
                                            !.disk_free = disk_free, !.i = @ + 1]
    /\ now' = now + wait_diskspace_dt
    /\ ticks_left' = ticks_left - 1
    /\ IF loop_local.i + 1 = MaxDiskChecks
       THEN bs_state' = dead_state /\ loop_pc' = "disk_fatal"
       ELSE bs_state' = "disk full" /\ loop_pc' = "disk"
    /\ UNCHANGED <<run_coll, production, online_monitor, selected, beside_loop>>

\* loop() goes on below process_run(rd).
fall_through == "retry"

\* loop(): `continue' after process_run(rd), back to the top of the while
continue_loop == "disk"

\* loop() takes the run consider_run returned to process_run, or goes on.
Take(r, q, otherwise) ==
    /\ run_coll' = Considered(r)
    /\ IF r # 0
       THEN /\ loop_local' =
                [loop_local EXCEPT
                    !.rd = r, !.query = q,
                    !.claimed = @ \cup {<<r, q>>},
                    !.new_runs_seen = IF q = "new" THEN @ + 1 ELSE @,
                    !.failed_runs_seen = IF q = "retry" THEN @ + 1 ELSE @]
            /\ loop_pc' = "process"
            /\ selected' = selected \cup {r}
       ELSE /\ loop_local' = [loop_local EXCEPT !.rd = 0, !.query = q]
            /\ loop_pc' = otherwise
            /\ selected' = selected

\* rd = consider_run({"bootstrax.state": None}, test_counter=new_runs_seen)
ClaimNew ==
    /\ loop_pc = "new"
    /\ Take(consider_run("new", loop_local.new_runs_seen), "new",
            IF now > loop_local.next_cleanup_time THEN "ping" ELSE "retry")
    /\ UNCHANGED <<now, ticks_left, production, bs_state, online_monitor, beside_loop>>

\* process_run(rd).  Production: clean_run, then the run ends up done or
\* failed.  Test mode: fail() only logs and nothing is registered.
ProcessRun ==
    /\ loop_pc = "process"
    /\ LET r == loop_local.rd
           bd == run_coll[r].bootstrax
       IN
       IF production
       THEN /\ online_monitor' = online_monitor \ {r}
            /\ \/ run_coll' =
                    [run_coll EXCEPT
                        ![r].bootstrax = set_run_state(bd, "done", ThisHost, now, <<>>),
                        ![r].data = @ \cup {ThisHost},
                        ![r].end = IF @ = absent THEN now ELSE @]
               \/ \E jitter \in JitterSample :
                    run_coll' =
                        [clean_run(run_coll, r) EXCEPT
                            ![r].bootstrax =
                                set_run_state(bd, "failed", ThisHost, now,
                                    [reason |-> "process_run",
                                     next_retry |->
                                        now + retry_delay(Get(bd.n_failures, 0), jitter)])]
       ELSE UNCHANGED <<run_coll, online_monitor>>
    /\ loop_pc' = continue_loop
    /\ UNCHANGED <<now, ticks_left, production, loop_local, bs_state, selected, beside_loop>>

\* cleanup_db begins with ping_dbs().  A ping that fails is caught, and the
\* handler calls log.warning(..., priority="warning"): the logger is a
\* logging.Logger, which takes no such keyword and raises a TypeError.
PingDbs ==
    /\ loop_pc = "ping"
    /\ \E reachable \in BOOLEAN :
        IF reachable
        THEN /\ loop_pc' = "sweep"
             /\ loop_local' = [loop_local EXCEPT !.query = "stuck_considering"]
        ELSE /\ loop_pc' = "ping_raised"
             /\ loop_local' = loop_local
    /\ UNCHANGED <<now, ticks_left, run_coll, production, bs_state, online_monitor,
                   selected, beside_loop>>

\* cleanup_db: consider_run(query) returns None; the next query, or back to
\* loop(), which sets next_cleanup_time.
CleanupNone ==
    /\ loop_pc = "sweep"
    /\ consider_run(loop_local.query, 0) = 0
    /\ IF loop_local.query = "abandon_failed"
       THEN /\ loop_pc' = "retry"
            /\ loop_local' = [loop_local EXCEPT
                                !.next_cleanup_time = now + cleanup_spacing]
       ELSE /\ loop_pc' = "sweep"
            /\ loop_local' = [loop_local EXCEPT !.query = NextQuery(@)]
    /\ UNCHANGED <<now, ticks_left, run_coll, production, bs_state, online_monitor,
                   selected, beside_loop>>

\* cleanup_db: consider_run(query) returns a run and fail_run(rd, ...) is
\* called on it, followed by abandon() for the abandon queries: clean_run in
\* either mode, set_run_state in production only.
CleanupFail ==
    /\ loop_pc = "sweep"
    /\ LET q == loop_local.query
           r == consider_run(q, 0)
       IN
        /\ r # 0
        /\ online_monitor' = online_monitor \ {r}
        /\ \E jitter \in JitterSample :
            LET claimed == Considered(r)[r].bootstrax
                local == IF return_new_doc(q) THEN claimed
                         ELSE [run_coll[r].bootstrax EXCEPT !.state = "considering"]
                failed == set_run_state(local, "failed", ThisHost, now,
                            [reason |-> q,
                             next_retry |->
                                now + retry_delay(Get(local.n_failures, 0), jitter)])
                final == IF q \in {"abandon_done", "abandon_failed"}
                         THEN set_run_state(failed, "abandoned", ThisHost, now, <<>>)
                         ELSE failed
            IN  run_coll' =
                    IF production
                    THEN [clean_run(run_coll, r) EXCEPT ![r].bootstrax = final]
                    ELSE clean_run(run_coll, r)
        /\ loop_local' = [loop_local EXCEPT !.claimed = @ \cup {<<r, q>>}]
    /\ UNCHANGED <<now, ticks_left, production, loop_pc, bs_state, selected, beside_loop>>

\* The retry query with test_counter=failed_runs_seen.  With nothing to
\* retry the test mode leaves the loop; production sets itself idle and naps.
ClaimRetry ==
    /\ loop_pc = "retry"
    /\ LET r == consider_run("retry", loop_local.failed_runs_seen) IN
        /\ Take(r, "retry", IF production THEN "disk" ELSE "stopped")
        /\ IF r = 0 /\ production
           THEN /\ ticks_left > 0
                /\ ticks_left' = ticks_left - 1
                /\ now' = now + idle_nap
                /\ bs_state' = "idle"
           ELSE UNCHANGED <<now, ticks_left, bs_state>>
    /\ UNCHANGED <<production, online_monitor, beside_loop>>

\* The sub-documents of the runs loop() finds: untouched; failed once and
\* due for a retry; left busy by FormerHost; done.
FailedOnce ==
    [NoBootstrax EXCEPT !.state = "failed", !.host = FormerHost, !.time = 0,
                        !.n_failures = 1, !.next_retry = 0, !.reason = "process_run"]
LeftBusy == [NoBootstrax EXCEPT !.state = "busy", !.host = FormerHost, !.time = 0]
DoneBy(host) == [NoBootstrax EXCEPT !.state = "done", !.host = host, !.time = 0]

\* The run docs a run can have when loop() starts; the last one is done on
\* this host although the run has no end.
LoopDocs(r) ==
    {[RunDoc(r, d[1], d[2], FALSE, d[3]) EXCEPT !.start = 10 * r] :
        d \in {<<NoBootstrax, absent, {}>>, <<FailedOnce, 500, {}>>,
               <<LeftBusy, absent, {}>>, <<DoneBy(FormerHost), 500, {FormerHost}>>,
               <<DoneBy(ThisHost), absent, {ThisHost}>>}}

InitLoop ==
    /\ NothingResolved
    /\ NothingInferred
    /\ NothingKilled
    /\ NoneLaunched
    /\ NeverFailed
    /\ NothingValidated
    /\ NothingMore
    /\ now = LoopStart
    /\ ticks_left = LoopTicks
    /\ fails_left = 0
    /\ gave_up = {}
    /\ found = [p \in Hosts |-> NoBootstrax]
    /\ pc = [p \in Hosts |-> "find"]
    /\ call = [p \in Hosts |-> "new"]
    /\ rd = [p \in Hosts |-> NoRd]
    /\ next_cleanup_time = [p \in Hosts |-> 0]
    /\ run_coll \in [LoopRuns -> UNION {LoopDocs(r) : r \in LoopRuns}]
    /\ \A r \in LoopRuns : run_coll[r] \in LoopDocs(r)
    /\ production \in BOOLEAN
    /\ loop_pc = "disk"
    /\ loop_local = [new_runs_seen |-> 0, failed_runs_seen |-> 1,
                     next_cleanup_time |-> LoopStart - 1, rd |-> 0, query |-> "new",
                     i |-> 0, disk_pct |-> 0, disk_free |-> 0, claimed |-> {}]
    /\ bs_state = "starting"
    /\ online_monitor = LoopRuns
    /\ selected = {}
    /\ delete_thread = "none"

NextLoop ==
    \/ DiskSufficient
    \/ DiskInsufficient
    \/ ClaimNew
    \/ ProcessRun
    \/ PingDbs
    \/ CleanupNone
    \/ CleanupFail
    \/ ClaimRetry

SpecLoop == InitLoop /\ [][NextLoop]_vars

\* loop() keeps running: the instance takes a step whenever it can.
SpecLoopFair == SpecLoop /\ WF_vars(NextLoop)

-----------------------------------------------------------------------------
(* run() with --process NUMBER: the check of the state, the claim, *)
(* process_run, wait_on_delete_thread and the exit of bootstrax     *)

beside_process == <<beside_run, online_monitor, selected>>

\* The states of a run for which production refuses --process.
already_processed == {"done", "busy", "considering"}

\* "Check whether the run is already processed": in production a run that
\* is done, busy or considering is refused with a ValueError.
ProcessCheck ==
    /\ loop_pc = "check"
    /\ LET bootstrax_state == run_coll[loop_local.number].bootstrax.state IN
       loop_pc' = IF production /\ bootstrax_state \in already_processed
                  THEN "refused" ELSE "claim"
    /\ UNCHANGED <<now, ticks_left, run_coll, production, loop_local, bs_state,
                   delete_thread, beside_process>>

\* rd = consider_run({"number": number}); set_state("busy")
ProcessClaim ==
    /\ loop_pc = "claim"
    /\ run_coll' = Considered(loop_local.number)
    /\ loop_local' = [loop_local EXCEPT !.rd = loop_local.number]
    /\ bs_state' = "busy"
    /\ loop_pc' = "process"
    /\ UNCHANGED <<now, ticks_left, production, delete_thread, beside_process>>

\* process_run(rd).  Production: the run ends up failed, or done, and then
\* delete_live_data starts the DeleteThread if --delete_live is given.
ProcessOne ==
    /\ loop_pc = "process"
    /\ LET r == loop_local.rd
           bd == run_coll[r].bootstrax
       IN
       IF production
       THEN \/ /\ run_coll' =
                    [run_coll EXCEPT
                        ![r].bootstrax = set_run_state(bd, "done", ThisHost, now, <<>>),
                        ![r].data = @ \cup {ThisHost},
                        ![r].end = IF @ = absent THEN now ELSE @]
               /\ delete_thread' = IF loop_local.delete_live THEN "running" ELSE "none"
            \/ /\ \E jitter \in JitterSample :
                    run_coll' =
                        [clean_run(run_coll, r) EXCEPT
                            ![r].bootstrax =
                                set_run_state(bd, "failed", ThisHost, now,
                                    [reason |-> "process_run",
                                     next_retry |->
                                        now + retry_delay(Get(bd.n_failures, 0), jitter)])]
               /\ delete_thread' = "none"
       ELSE UNCHANGED <<run_coll, delete_thread>>
    /\ loop_pc' = "wait"
    /\ UNCHANGED <<now, ticks_left, production, loop_local, bs_state, beside_process>>

\* _delete_data returns: the DeleteThread ends.
DeleteFinishes ==
    /\ delete_thread = "running"
    /\ delete_thread' = "finished"
    /\ UNCHANGED <<now, ticks_left, run_coll, loopVars, beside_run>>

\* wait_on_delete_thread: threading.enumerate() lists the threads that are
\* alive; without a DeleteThread among them the function returns.
WaitEnumerate ==
    /\ loop_pc = "wait"
    /\ loop_pc' = IF delete_thread = "running" THEN "is_alive" ELSE "return"
    /\ UNCHANGED <<now, ticks_left, run_coll, production, loop_local, bs_state,
                   delete_thread, beside_process>>

\* while not done: a thread that is alive gives one nap of idle_nap and
\* done = True; for a thread that has ended meanwhile the loop never ends.
WaitIsAlive ==
    /\ loop_pc = "is_alive"
    /\ IF delete_thread = "running"
       THEN /\ ticks_left > 0
            /\ ticks_left' = ticks_left - 1
            /\ now' = now + idle_nap
            /\ loop_pc' = "return"
       ELSE UNCHANGED <<now, ticks_left, loop_pc>>
    /\ UNCHANGED <<run_coll, production, loop_local, bs_state, delete_thread,
                   beside_process>>

\* run() and main() return and bootstrax exits; a daemon thread that still
\* runs ends with it.
BootstraxExits ==
    /\ loop_pc = "return"
    /\ loop_pc' = "exited"
    /\ delete_thread' = IF delete_thread = "running" THEN "killed" ELSE delete_thread
    /\ UNCHANGED <<now, ticks_left, run_coll, production, loop_local, bs_state,
                   beside_process>>

\* bootstrax --process NUMBER, with or without --production and
\* --delete_live, on a registry as loop() can find it.
InitProcess ==
    /\ NothingResolved
    /\ NothingInferred
    /\ NothingKilled
    /\ NoneLaunched
    /\ NeverFailed
    /\ NothingValidated
    /\ NothingMore
    /\ now = LoopStart
    /\ ticks_left = LoopTicks
    /\ fails_left = 0
    /\ gave_up = {}
    /\ found = [p \in Hosts |-> NoBootstrax]
    /\ pc = [p \in Hosts |-> "find"]
    /\ call = [p \in Hosts |-> "new"]
    /\ rd = [p \in Hosts |-> NoRd]
    /\ next_cleanup_time = [p \in Hosts |-> 0]
    /\ run_coll \in [LoopRuns -> UNION {LoopDocs(r) : r \in LoopRuns}]
    /\ \A r \in LoopRuns : run_coll[r] \in LoopDocs(r)
    /\ production \in BOOLEAN
    /\ loop_pc = "check"
    /\ \E number \in LoopRuns : \E delete_live \in BOOLEAN :
        loop_local = [number |-> number, delete_live |-> delete_live, rd |-> 0]
    /\ bs_state = "none"
    /\ online_monitor = LoopRuns
    /\ selected = {}
    /\ delete_thread = "none"

NextProcess ==
    \/ ProcessCheck
    \/ ProcessClaim
    \/ ProcessOne
    \/ DeleteFinishes
    \/ WaitEnumerate
    \/ WaitIsAlive
    \/ BootstraxExits

SpecProcess == InitProcess /\ [][NextProcess]_vars

\* The main thread and the DeleteThread both keep running.
SpecProcessFair == SpecProcess /\ WF_vars(NextProcess) /\ WF_vars(DeleteFinishes)

-----------------------------------------------------------------------------
(* The output of one run on ThisHost (production): clean_run and           *)
(* _delete_data as process_run, fail_run and the sweeps of cleanup_db call *)
(* them, with the strax child registering and writing its output.          *)

\* The data documents one run doc holds at most when it is claimed.
MaxData == 2

\* The data types the strax child writes, the host of the live data and a
\* host other than ThisHost.
OutTypes == {"raw_records_nv", "peaks"}
DaqHost == "daq"
OtherHost == "eb4"

\* A document of the data list of a run doc; its location is the directory
\* of that type on its host.
DataDoc(type, host) == [type |-> type, host |-> host]
LiveDoc == DataDoc("live", DaqHost)
RunDataDocs == {LiveDoc} \cup {DataDoc(t, h) : t \in OutTypes, h \in {ThisHost, OtherHost}}

\* The data lists of at most MaxData different documents.
DataLists ==
    UNION {{l \in [1 .. n -> RunDataDocs] : \A i, j \in 1 .. n : i # j => l[i] # l[j]} :
               n \in 0 .. MaxData}

\* ddoc["location"] on ThisHost, and loc + "_temp"
Loc(type) == [type |-> type, temp |-> FALSE]
LocTemp(type) == [type |-> type, temp |-> TRUE]
Paths == {Loc(t) : t \in OutTypes} \cup {LocTemp(t) : t \in OutTypes}

\* live_data_path of delete_live_data, a directory that is not on ThisHost
LiveDataPath == Loc("live")

\* clean_run: any dd["type"] == "live"
have_live_data(data) == \E i \in 1 .. Len(data) : data[i].type = "live"

\* "raw_records" in ddoc["type"]
is_raw_records(type) == type \in {"raw_records", "raw_records_nv"}

\* Only the documents of the daq are pulled.
pull_of_daq(ddoc, data_type) == ddoc.type = data_type /\ ddoc.host = DaqHost

\* _delete_data: "$pull": {"data": {"type": data_type, "host": {"$in": ["daq", hostname]}}}
pull_matches(ddoc, data_type) == ddoc.type = data_type /\ ddoc.host \in {DaqHost, ThisHost}

\* _delete_data: the first document of rd["data"] of that type, without its
\* location, with "at" and "by".
deleted_entry(rd_data, data_type, t) ==
    LET i == CHOOSE i \in 1 .. Len(rd_data) :
                 /\ rd_data[i].type = data_type
                 /\ \A j \in 1 .. (i - 1) : rd_data[j].type # data_type
    IN  [type |-> rd_data[i].type, host |-> rd_data[i].host, at |-> t, by |-> ThisHost]

\* Only the directory is removed; the run doc is left as it is.
delete_directory(st, rd_data, path, data_type, t) == [st EXCEPT !.disk = @ \ {path}]

\* _delete_data(rd, path, data_type) at time t on st, the data and the
\* deleted_data of the run doc in the registry and the directories of
\* ThisHost: shutil.rmtree(path), then the update of the run doc.
delete_data(st, rd_data, path, data_type, t) ==
    [data |-> SelectSeq(st.data, LAMBDA ddoc : ~pull_matches(ddoc, data_type)),
     deleted_data |-> st.deleted_data \cup {deleted_entry(rd_data, data_type, t)},
     disk |-> st.disk \ {path}]

\* clean_run deletes the raw records too when the live data is gone.
unprotected(force, have_live, type) == FALSE

\* clean_run: not force and not have_live_data and "raw_records" in ddoc["type"]
prevented(force, have_live, type) == ~force /\ ~have_live /\ is_raw_records(type)

\* clean_run: the loop over rd["data"] from its i-th document on, rd being
\* the run doc as clean_run has read it.
RECURSIVE clean_from(_, _, _, _, _)
clean_from(st, rd_data, i, force, t) ==
    IF i > Len(rd_data) THEN st
    ELSE LET ddoc == rd_data[i]
             loc == Loc(ddoc.type)
         IN  IF ddoc.host # ThisHost
                    \/ prevented(force, have_live_data(rd_data), ddoc.type)
             THEN clean_from(st, rd_data, i + 1, force, t)
             ELSE IF loc \in st.disk
             THEN clean_from(delete_data(st, rd_data, loc, ddoc.type, t),
                             rd_data, i + 1, force, t)
             ELSE clean_from(delete_data(st, rd_data, LocTemp(ddoc.type), ddoc.type, t),
                             rd_data, i + 1, force, t)

\* clean_run(mongo_id=..., force=force) at time t
clean_run_data(st, force, t) == clean_from(st, st.data, 1, force, t)

\* The registry's run doc and the directories as one value, and back.
Stored == [data |-> run_doc.data, deleted_data |-> run_doc.deleted_data, disk |-> disk]
Store(st) ==
    /\ run_doc' = [run_doc EXCEPT !.data = st.data, !.deleted_data = st.deleted_data]
    /\ disk' = st.disk

beside_clean == <<now, ticks_left, runVars, startVars, backoffVars, valVars, tgVars, mdVars,
                  killVars, loopVars, delete_thread, ebVars, workVars>>

\* process_run: the checks of rd["data"] and of the rest of the run doc
\* before anything is deleted.  An empty data list leaves dd unbound.
CheckData ==
    /\ clean_pc = "claimed"
    /\ IF run_doc.data = <<>>
       THEN clean_pc' = "raised"
       ELSE IF run_doc.data[1].type # "live"
       THEN clean_pc' = "fail_clean"
       ELSE clean_pc' \in {"clean", "fail_clean"}
    /\ UNCHANGED <<run_doc, disk, strax_alive, tagged_abandon, beside_clean>>

\* process_run: clean_run(mongo_id=rd["_id"]), then infer_target and
\* infer_mode, which are called outside any try: the ValueError of
\* duplicate targets, the RuntimeError of a rate that cannot be inferred
\* and the KeyError of infer_records_compressor on a daq_config without
\* chunk length leave process_run.  Otherwise the child is started and the
\* first poll calls set_run_state(rd, "busy").
ProcessClean ==
    /\ clean_pc = "clean"
    /\ \E inferred \in BOOLEAN :
        LET st == clean_run_data(Stored, FALSE, now)
        IN  /\ run_doc' = [run_doc EXCEPT !.data = st.data,
                                          !.deleted_data = st.deleted_data,
                                          !.state = IF inferred THEN "busy" ELSE @]
            /\ disk' = st.disk
            /\ strax_alive' = inferred
            /\ clean_pc' = IF inferred THEN "running" ELSE "raised"
    /\ UNCHANGED <<tagged_abandon, beside_clean>>

\* The child registers a data type it starts to save and writes it to the
\* temporary directory of that type.
StraxRegisters ==
    /\ strax_alive
    /\ \E t \in OutTypes :
        /\ \A i \in 1 .. Len(run_doc.data) : run_doc.data[i] # DataDoc(t, ThisHost)
        /\ run_doc' = [run_doc EXCEPT !.data = Append(@, DataDoc(t, ThisHost))]
        /\ disk' = disk \cup {LocTemp(t)}
    /\ UNCHANGED <<clean_pc, strax_alive, tagged_abandon, beside_clean>>

\* The child has saved a data type: it renames the temporary directory.
StraxRenames ==
    /\ strax_alive
    /\ \E t \in OutTypes :
        /\ LocTemp(t) \in disk
        /\ disk' = (disk \ {LocTemp(t)}) \cup {Loc(t)}
    /\ UNCHANGED <<clean_pc, run_doc, strax_alive, tagged_abandon, beside_clean>>

\* process_run finds the child exited, with exit code 0 or another.
StraxExited ==
    /\ clean_pc = "running"
    /\ strax_alive
    /\ strax_alive' = FALSE
    /\ clean_pc' \in {"validate", "fail_clean"}
    /\ UNCHANGED <<run_doc, disk, tagged_abandon, beside_clean>>

\* process_run finds a fatal condition: kill_process, which the child may
\* outlive, then fail(); or kill_process raises psutil.NoSuchProcess on a
\* descendant that is gone.
PollFatal ==
    /\ clean_pc = "running"
    /\ strax_alive
    /\ strax_alive' \in BOOLEAN
    /\ clean_pc' \in {"fail_clean", "raised"}
    /\ UNCHANGED <<run_doc, disk, tagged_abandon, beside_clean>>

\* A child that outlived kill_process exits.
StraxDies ==
    /\ clean_pc # "running"
    /\ strax_alive
    /\ strax_alive' = FALSE
    /\ UNCHANGED <<clean_pc, run_doc, disk, tagged_abandon, beside_clean>>

\* process_run after exit code 0: a check fails, or set_run_state(rd,
\* "done"), then set_status_finished, which raises a ValueError on a status
\* that must not be overwritten, and, with --delete_live,
\* _delete_data(rd, loc, "live") of the DeleteThread.
Validate ==
    /\ clean_pc = "validate"
    /\ \/ /\ clean_pc' = "fail_clean"
          /\ UNCHANGED <<run_doc, disk>>
       \/ /\ clean_pc' = "raised"
          /\ run_doc' = [run_doc EXCEPT !.state = "done"]
          /\ UNCHANGED disk
       \/ /\ clean_pc' = "done"
          /\ \E delete_live \in BOOLEAN :
                LET st == IF delete_live /\ have_live_data(run_doc.data)
                          THEN delete_data(Stored, run_doc.data, LiveDataPath, "live", now)
                          ELSE Stored
                IN  /\ run_doc' = [run_doc EXCEPT !.data = st.data,
                                                  !.deleted_data = st.deleted_data,
                                                  !.state = "done"]
                    /\ disk' = st.disk
    /\ UNCHANGED <<strax_alive, tagged_abandon, beside_clean>>

\* fail_run: clean_run(mongo_id=rd["_id"])
FailClean ==
    /\ clean_pc = "fail_clean"
    /\ Store(clean_run_data(Stored, FALSE, now))
    /\ clean_pc' = "fail_write"
    /\ UNCHANGED <<strax_alive, tagged_abandon, beside_clean>>

\* fail_run: set_run_state(rd, "failed", ...)
FailWrite ==
    /\ clean_pc = "fail_write"
    /\ run_doc' = [run_doc EXCEPT !.state = "failed"]
    /\ clean_pc' = IF tagged_abandon THEN "abandon" ELSE "failed"
    /\ UNCHANGED <<disk, strax_alive, tagged_abandon, beside_clean>>

\* cleanup_db: abandon(mongo_id=rd["_id"]) after fail_run
Abandon ==
    /\ clean_pc = "abandon"
    /\ run_doc' = [run_doc EXCEPT !.state = "abandoned"]
    /\ clean_pc' = "abandoned"
    /\ UNCHANGED <<disk, strax_alive, tagged_abandon, beside_clean>>

\* loop(): consider_run of the retry query takes the failed run again.
Retry ==
    /\ clean_pc = "failed"
    /\ run_doc' = [run_doc EXCEPT !.state = "considering"]
    /\ clean_pc' = "claimed"
    /\ UNCHANGED <<disk, strax_alive, tagged_abandon, beside_clean>>

\* An operator tags the run with abandon.
TagAbandon ==
    /\ clean_pc \in {"done", "failed"}
    /\ ~tagged_abandon
    /\ tagged_abandon' = TRUE
    /\ UNCHANGED <<clean_pc, run_doc, disk, strax_alive, beside_clean>>

\* cleanup_db: consider_run of an abandon query, or of a stuck query on
\* the run process_run raised on; fail_run follows.
Sweep ==
    /\ \/ clean_pc \in {"done", "failed"} /\ tagged_abandon
       \/ clean_pc = "raised" /\ run_doc.state \in {"considering", "busy"}
    /\ run_doc' = [run_doc EXCEPT !.state = "considering"]
    /\ clean_pc' = "fail_clean"
    /\ UNCHANGED <<disk, strax_alive, tagged_abandon, beside_clean>>

\* consider_run has claimed the run for ThisHost; directories of earlier
\* executions may be left on its disk.
InitClean ==
    /\ now = 0
    /\ ticks_left = 0
    /\ RunsAtRest
    /\ NoneLaunched
    /\ NeverFailed
    /\ NothingValidated
    /\ NothingResolved
    /\ NothingInferred
    /\ NothingKilled
    /\ NothingLooped
    /\ delete_thread = "none"
    /\ NothingDecided
    /\ NothingRefreshed
    /\ clean_pc = "claimed"
    /\ \E data \in DataLists :
        run_doc = [data |-> data, deleted_data |-> {}, state |-> "considering"]
    /\ disk \in SUBSET Paths
    /\ strax_alive = FALSE
    /\ tagged_abandon = FALSE

NextClean ==
    \/ CheckData
    \/ ProcessClean
    \/ StraxRegisters
    \/ StraxRenames
    \/ StraxExited
    \/ PollFatal
    \/ StraxDies
    \/ Validate
    \/ FailClean
    \/ FailWrite
    \/ Abandon
    \/ Retry
    \/ TagAbandon
    \/ Sweep

SpecClean == InitClean /\ [][NextClean]_vars

-----------------------------------------------------------------------------
(* eb_can_process and the query for new runs that loop() makes after it, *)
(* for an instance on an old or a new event builder.                      *)

\* timeouts[...] and the queue that lets the old event builders help
bootstrax_presumed_dead == 300
eb3_5_max_busy_time == 300
max_queue_new_runs == 3

\* The untouched TPC runs the registry holds at most, and the time of the
\* call.
MaxQueue == 4
EbNow == 1000

\* The new event builders, and the hosts an instance runs on.
NewEbs == {"eb3", "eb4", "eb5"}
EbHosts == {"eb0", "eb2", "eb3"}

\* What the registry holds of a new event builder: the time of its latest
\* heartbeat, and bootstrax.started_processing of the run it is busy on.
EbSeen ==
    [time : {absent, EbNow - bootstrax_presumed_dead, EbNow - bootstrax_presumed_dead + 1},
     started_processing : {absent, EbNow - eb3_5_max_busy_time,
                           EbNow - eb3_5_max_busy_time - 1}]

\* eb_can_process: bs_coll.find_one({"host": ..., "time": {"$gt": now(-presumed_dead)}})
n_ebs_running(ebs, t) ==
    Cardinality({e \in NewEbs :
        ebs[e].time # absent /\ ebs[e].time > t - bootstrax_presumed_dead})

\* eb_can_process: of those, the ones with a run in state busy whose
\* started_processing is before now(-eb3-5_max_busy_time)
n_ebs_busy(ebs, t) ==
    Cardinality({e \in NewEbs :
        /\ ebs[e].time # absent /\ ebs[e].time > t - bootstrax_presumed_dead
        /\ ebs[e].started_processing # absent
        /\ ebs[e].started_processing < t - eb3_5_max_busy_time})

\* eb_can_process() on host hostname at time t
eb_can_process(hostname, prod, n_untouched_runs, ebs, t) ==
    IF hostname \in NewEbs THEN TRUE
    ELSE IF ~prod THEN TRUE
    ELSE IF hostname = "eb2" THEN FALSE
    ELSE IF n_ebs_running(ebs, t) = 0 THEN TRUE
    ELSE IF n_untouched_runs > max_queue_new_runs THEN TRUE
    ELSE FALSE

beside_eb == <<now, ticks_left, runVars, startVars, backoffVars, valVars, tgVars, mdVars,
               killVars, loopVars, delete_thread, cleanVars, workVars>>

\* loop(): if eb_can_process()
EbCanProcess ==
    /\ eb_pc = "loop"
    /\ eb_out' = [can |-> eb_can_process(eb_in.hostname, eb_in.production,
                                         eb_in.untouched_tpc + eb_in.untouched_veto,
                                         eb_in.ebs, now),
                  claimed |-> "none"]
    /\ eb_pc' = "new"
    /\ UNCHANGED <<eb_in, beside_eb>>

\* loop(): consider_run({"bootstrax.state": None}) when eb_can_process()
\* returned True, which takes the untouched run that started last, a TPC
\* run or not; consider_run({"detectors": {"$ne": "tpc"}, "bootstrax.state":
\* None}) otherwise.
ConsiderNew ==
    /\ eb_pc = "new"
    /\ \E kind \in {"tpc", "veto", "none"} :
        /\ kind = "tpc" => eb_out.can /\ eb_in.untouched_tpc > 0
        /\ kind = "veto" => eb_in.untouched_veto > 0
        /\ kind = "none" => /\ eb_in.untouched_veto = 0
                            /\ eb_out.can => eb_in.untouched_tpc = 0
        /\ eb_out' = [eb_out EXCEPT !.claimed = kind]
        /\ eb_in' = [eb_in EXCEPT
                        !.untouched_tpc = IF kind = "tpc" THEN @ - 1 ELSE @,
                        !.untouched_veto = IF kind = "veto" THEN @ - 1 ELSE @]
    /\ eb_pc' = "claimed"
    /\ UNCHANGED beside_eb

InitEb ==
    /\ now = EbNow
    /\ ticks_left = 0
    /\ RunsAtRest
    /\ NoneLaunched
    /\ NeverFailed
    /\ NothingValidated
    /\ NothingResolved
    /\ NothingInferred
    /\ NothingKilled
    /\ NothingLooped
    /\ delete_thread = "none"
    /\ NothingCleaned
    /\ NothingRefreshed
    /\ eb_pc = "loop"
    /\ eb_in \in [hostname : EbHosts, production : BOOLEAN,
                  untouched_tpc : 0 .. MaxQueue, untouched_veto : 0 .. 1,
                  ebs : [NewEbs -> EbSeen]]
    /\ eb_out = <<>>

NextEb == EbCanProcess \/ ConsiderNew

SpecEb == InitEb /\ [][NextEb]_vars

-----------------------------------------------------------------------------
(* The registry timestamp of one run while its claimant is in process_run  *)
(* (production): infer_mode, the poll loop, all_files_saved.  Another      *)
(* instance runs the stuck-run sweeps of cleanup_db at any time.           *)

\* timeouts["max_data_rate_infer_time"], the sleep of infer_mode between two
\* looks at the rate, and the defaults of all_files_saved
max_data_rate_infer_time == 60
infer_nap == 2
wait_max == 600
wait_per_cycle == 10

\* The sleeps of one behaviour, and the time of the claim.
RefreshTicks == 34
RefreshStart == 1000

\* The host of the sweeping instance.
SweepingHost == "eb4"

\* cleanup_db: {"bootstrax.state": state, "bootstrax.time": {"$lt": now(-timeout)}}
stuck(w, t) ==
    \/ w.state = "considering" /\ w.time < t - max_considering_time
    \/ w.state = "busy" /\ w.time < t - max_busy_time

beside_refresh == <<runVars, startVars, backoffVars, valVars, tgVars, mdVars, killVars,
                    loopVars, delete_thread, cleanVars, ebVars>>

\* The sleep of d seconds that ends a step of the claimant.
Sleep(d) ==
    /\ ticks_left > 0
    /\ ticks_left' = ticks_left - 1
    /\ now' = now + d

\* infer_mode: no rate yet; RuntimeError after max_data_rate_infer_time,
\* time.sleep(2) before.
InferWait ==
    /\ work_pc = "infer_mode"
    /\ IF now - work.started > max_data_rate_infer_time
       THEN work_pc' = "raised" /\ UNCHANGED <<now, ticks_left>>
       ELSE work_pc' = "infer_mode" /\ Sleep(infer_nap)
    /\ UNCHANGED <<work, beside_refresh>>

\* infer_mode returns with a rate; process_run starts the child and its
\* first poll calls set_run_state(rd, "busy").
InferDone ==
    /\ work_pc = "infer_mode"
    /\ work' = [work EXCEPT !.state = "busy", !.host = ThisHost, !.time = now]
    /\ work_pc' = "sleep"
    /\ UNCHANGED <<now, ticks_left, beside_refresh>>

\* The poll loop: time.sleep(timeouts["check_on_strax"]), then the child is
\* still running and set_run_state(rd, "busy") is called again.
PollRefresh ==
    /\ work_pc = "sleep"
    /\ Sleep(check_on_strax)
    /\ work' = [work EXCEPT !.state = "busy", !.host = ThisHost,
                            !.time = now + check_on_strax]
    /\ UNCHANGED <<work_pc, beside_refresh>>

\* The poll loop finds exit code 0; the checks lead to all_files_saved.
ChildDone ==
    /\ work_pc = "sleep"
    /\ Sleep(check_on_strax)
    /\ work' = [work EXCEPT !.started = now + check_on_strax]
    /\ work_pc' = "all_files_saved"
    /\ UNCHANGED beside_refresh

\* all_files_saved: check_data_written is False; after wait_max the run is
\* failed, before that send_heartbeat() and time.sleep(wait_per_cycle).
SavedWait ==
    /\ work_pc = "all_files_saved"
    /\ IF now - work.started > wait_max
       THEN /\ work' = [work EXCEPT !.state = "failed", !.host = ThisHost, !.time = now]
            /\ work_pc' = "returned"
            /\ UNCHANGED <<now, ticks_left>>
       ELSE /\ Sleep(wait_per_cycle)
            /\ UNCHANGED <<work, work_pc>>
    /\ UNCHANGED beside_refresh

\* all_files_saved returns True: set_run_state(rd, "done")
SavedDone ==
    /\ work_pc = "all_files_saved"
    /\ work' = [work EXCEPT !.state = "done", !.host = ThisHost, !.time = now]
    /\ work_pc' = "returned"
    /\ UNCHANGED <<now, ticks_left, beside_refresh>>

\* The claimant stops working on the run: its process is killed.
ClaimantStops ==
    /\ work_pc \in {"infer_mode", "sleep", "all_files_saved"}
    /\ work_pc' = "stopped"
    /\ UNCHANGED <<now, ticks_left, work, beside_refresh>>

\* Time passes after the claimant has stopped.
WaitStopped ==
    /\ work_pc \in {"stopped", "raised"}
    /\ Sleep(max_considering_time)
    /\ UNCHANGED <<work, work_pc, beside_refresh>>

\* cleanup_db of the other instance: consider_run of a stuck query returns
\* the run, and fail_run writes it failed.
SweepStuck ==
    /\ stuck(work, now)
    /\ work' = [work EXCEPT !.state = "failed", !.host = SweepingHost, !.time = now,
                            !.swept_in = work_pc]
    /\ UNCHANGED <<now, ticks_left, work_pc, beside_refresh>>

\* consider_run has claimed the run for ThisHost and process_run has
\* reached infer_mode.
InitRefresh ==
    /\ now = RefreshStart
    /\ ticks_left = RefreshTicks
    /\ RunsAtRest
    /\ NoneLaunched
    /\ NeverFailed
    /\ NothingValidated
    /\ NothingResolved
    /\ NothingInferred
    /\ NothingKilled
    /\ NothingLooped
    /\ delete_thread = "none"
    /\ NothingCleaned
    /\ NothingDecided
    /\ work_pc = "infer_mode"
    /\ work = [state |-> "considering", host |-> ThisHost, time |-> RefreshStart,
               started |-> RefreshStart, swept_in |-> "none"]

NextRefresh ==
    \/ InferWait
    \/ InferDone
    \/ PollRefresh
    \/ ChildDone
    \/ SavedWait
    \/ SavedDone
    \/ ClaimantStops
    \/ WaitStopped
    \/ SweepStuck

SpecRefresh == InitRefresh /\ [][NextRefresh]_vars

-----------------------------------------------------------------------------
(* Properties of the claims on the run collection *)

\* Instance p is inside consider_run: its find_one_and_update returned a run
\* and its set_run_state has not run yet.
Claiming(p) == pc[p] = "set"

\* Instance p holds a run: consider_run returned it and p has not yet written
\* done, failed or abandoned for it.
Holds(p) == pc[p] \in {"sweep_fail", "proc", "poll", "validate", "checks"}

\* C1: of two instances that call consider_run concurrently with the same
\* filter on the one run that matches, only one gets the run: never are two
\* instances inside consider_run with the same filter and the same run.
C1_OneCallReturnsTheRun ==
    \A p \in Hosts : \A q \in Hosts \ {p} :
        (Claiming(p) /\ Claiming(q) /\ call[p] = call[q])
            => rd[p].number # rd[q].number

\* C2: at any moment at most one instance holds a given run between the
\* return of consider_run and the write of done, failed or abandoned.
C2_AtMostOneHolder ==
    \A p \in Hosts : \A q \in Hosts \ {p} :
        (Holds(p) /\ Holds(q)) => rd[p].number # rd[q].number

\* C3 as stated: the state considering is recorded together with the host
\* and the time of the claimant, so the registry never shows a run that an
\* instance has set to considering while host and time are still those the
\* instance found.
C3_ClaimIsOneUpdate ==
    \A p \in Hosts :
        Claiming(p) =>
            LET b == StoredBd(rd[p].number) IN
            ~(/\ b.state = "considering"
              /\ b.host = rd[p].bootstrax.host
              /\ b.time = rd[p].bootstrax.time)

\* C3 amended: consider_run makes two registry updates.  The first changes
\* nothing but the state of the matched run, to considering; the second
\* stores the claimant's local sub-document with state considering, the
\* claimant's host and the time of that second update.
C3_ClaimIsTwoUpdates ==
    [][\A p \in Hosts :
        /\ (pc[p] = "find" /\ pc'[p] = "set") =>
              LET r == rd'[p].number IN
              run_coll' = [run_coll EXCEPT ![r].bootstrax.state = "considering"]
        /\ (pc[p] = "set" /\ pc'[p] # "set") =>
              LET r == rd[p].number IN
              run_coll' = [run_coll EXCEPT ![r].bootstrax =
                              [rd[p].bootstrax EXCEPT !.state = "considering",
                                                      !.host = p,
                                                      !.time = now]]
      ]_vars

\* An instance has completed consider_run on a run that FormerHost left
\* behind: the registry names the instance as host, at the current time.
C3_Witness ==
    \E p \in Hosts :
        /\ pc[p] \in {"sweep_fail", "proc"}
        /\ rd[p].number \in DOMAIN run_coll
        /\ StoredBd(rd[p].number).state = "considering"
        /\ StoredBd(rd[p].number).host = p
        /\ StoredBd(rd[p].number).time = now
        /\ now > 0

\* C6: every step that leaves a run failed with a changed sub-document (a
\* transition to failed) stores n_failures one above the value stored just
\* before, and no step lowers the stored n_failures.
C6_FailuresCountUp ==
    [][\A r \in DOMAIN run_coll :
        LET before == run_coll[r].bootstrax
            after == run_coll'[r].bootstrax
        IN
        /\ (after.state = "failed" /\ after # before) =>
              Get(after.n_failures, 0) = Get(before.n_failures, 0) + 1
        /\ Get(after.n_failures, 0) >= Get(before.n_failures, 0)
      ]_vars

\* C8: loop() claims a run for a retry only when the run is failed, has
\* n_failures below max_n_retry and next_retry before now, and no loop()
\* claims a run whose stored n_failures has reached max_n_retry.
C8_RetryBudget ==
    [][\A p \in Hosts :
        (pc[p] = "find" /\ pc'[p] = "set" /\ call[p] \in {"new", "retry"}) =>
            LET r == rd'[p].number
                b == run_coll[r].bootstrax
            IN
            /\ r \notin gave_up
            /\ call[p] = "retry" =>
                  /\ b.state = "failed"
                  /\ Lt(b.n_failures, max_n_retry)
                  /\ Lt(b.next_retry, now)
      ]_vars

\* C9: no step changes the state of a run that is abandoned.
C9_AbandonedIsFinal ==
    [][\A r \in DOMAIN run_coll :
        run_coll[r].bootstrax.state = "abandoned" =>
            run_coll'[r].bootstrax.state = "abandoned"
      ]_vars

\* C10: the fail_run of an instance that sweeps a run it found busy leaves
\* the run failed, with a reason that names the host the run had when the
\* instance found it, and with one failure more than it had then.
C10_SweepNamesTheHostFound ==
    [][\A p \in Hosts :
        (pc[p] = "sweep_fail" /\ call[p] = "stuck_busy" /\ pc'[p] # "sweep_fail") =>
            LET after == run_coll'[rd[p].number].bootstrax IN
            /\ after.state = "failed"
            /\ after.said = found[p].host
            /\ after.n_failures = Get(found[p].n_failures, 0) + 1
      ]_vars


\* The queries of cleanup_db that look for runs in state done.
DoneQueries == {"done_no_end", "done_no_data", "abandon_done"}

\* C11 as stated: no step of an instance moves a run out of the state done.
C11_DoneIsFinal ==
    [][\A r \in DOMAIN run_coll :
        run_coll[r].bootstrax.state = "done" =>
            run_coll'[r].bootstrax.state = "done"
      ]_vars

\* C11 amended: a step that moves a run out of done is either the claim of
\* a cleanup sweep whose query looks for done runs (no end, no processed
\* data, or the abandon tag on a run started within abandoning_allowed),
\* or the write, under its own host name, of an instance that held a copy
\* of the run before the step; the
\* queries of loop() for new runs and for retries never take a done run.
C11_DoneLeftOnlyBySweep ==
    [][\A r \in DOMAIN run_coll :
        (run_coll[r].bootstrax.state = "done" /\ run_coll'[r].bootstrax.state # "done") =>
            \E p \in Hosts :
                \/ /\ pc[p] = "find" /\ pc'[p] = "set"
                   /\ call[p] \in DoneQueries
                   /\ \/ run_coll[r].end = absent
                      \/ run_coll[r].data = {}
                      \/ (run_coll[r].abandon_tag
                            /\ run_coll[r].start > now - abandoning_allowed)
                \/ /\ pc[p] # "find"
                   /\ rd[p].number = r
                   /\ run_coll'[r].bootstrax.host = p
      ]_vars

\* A sweep has claimed and failed a run that was done: with no end, and
\* with the abandon tag.
C11_Witness ==
    \E r \in DOMAIN run_coll :
        /\ run_coll[r].bootstrax.state = "failed"
        /\ run_coll[r].bootstrax.reason \in DoneQueries


-----------------------------------------------------------------------------
(* Properties of keep_target and infer_target (SpecTargets) *)

\* The lists process_run hands to the child.
Started == tg_pc = "started"

\* Every target of the list is one the pruning after n failures removes.
AllPruned(list, n) ==
    n # 0 /\ \A i \in 1 .. Len(list) : removed(list[i], remove_target_after_fails, n)

\* The mode of the run replaces, or adds to, the pruned lists.
ModeOverrides(a) ==
    \/ \E m \in led_modes \cup ap_modes \cup nv_ref_mon \cup diagnostic_modes : InStr(m, a.mode)
    \/ InStr("kr83m", a.mode)
    \/ InStr("ambe", a.mode) /\ a.ambe.name # "default"

\* C12: pruning is idempotent: keep_target of what keep_target kept, with the
\* same table and the same failure count, is what it kept.
C12_PruningIsIdempotent ==
    tg_pc = "pruned_again" => tg_out.kept_again = tg_out.kept

\* A pruning that removed some of the targets, or all of them with a list
\* other than raw_records in their place, and then ran again on its result.
C12_Witness ==
    /\ tg_pc = "pruned_again"
    /\ Len(tg_out.kept) < Len(tg_in.targets)
    /\ tg_out.kept # <<"raw_records">>

\* C13 as stated: the resolved lists are never empty, and when the pruning
\* removes every configured target the resolved list is raw_records alone.
C13_NeverEmpty ==
    Started =>
        /\ Len(tg_out.targets) > 0
        /\ Len(tg_out.post_processing) > 0
        /\ AllPruned(tg_in.targets, tg_in.n_failures) => tg_out.targets = <<"raw_records">>
        /\ AllPruned(tg_in.post_process, tg_in.n_failures)
                => tg_out.post_processing = <<"raw_records">>

\* C13 amended: without --fix_target the resolved lists are never empty,
\* and a list whose every target the pruning removed resolves to raw_records
\* alone unless the mode of the run overrides the lists; with --fix_target
\* the resolved lists are the configured ones, empty or not.
C13_NeverEmptyUnlessFixed ==
    Started =>
        IF tg_in.fix_target
        THEN /\ tg_out.targets = tg_in.targets
             /\ tg_out.post_processing = tg_in.post_process
        ELSE /\ Len(tg_out.targets) > 0
             /\ Len(tg_out.post_processing) > 0
             /\ (AllPruned(tg_in.targets, tg_in.n_failures) /\ ~ModeOverrides(tg_in))
                    => tg_out.targets = <<"raw_records">>
             /\ (AllPruned(tg_in.post_process, tg_in.n_failures) /\ ~ModeOverrides(tg_in))
                    => tg_out.post_processing = <<"raw_records">>

\* After eight failures every configured target is pruned and the run,
\* resolved without --fix_target, gets raw_records alone.
C13_Witness ==
    /\ Started
    /\ ~tg_in.fix_target
    /\ tg_in.n_failures = 8
    /\ Len(tg_in.targets) = MaxTargets
    /\ tg_out.targets = <<"raw_records">>

\* C14 as stated: a target is dropped exactly when the failure count exceeds
\* the threshold of the first pattern, in table order, that matches it.
C14_FirstMatchWins ==
    tg_pc = "pruned" =>
        tg_out.kept = keep_target_first_match(tg_in.targets, tg_out.compare_with,
                                              tg_in.n_failures)

\* C14 amended: a target is dropped exactly when the failure count exceeds
\* the smallest threshold among all the patterns that match it, wherever
\* they stand in the table; on remove_target_after_fails, whose thresholds
\* never decrease in table order, that is the threshold of the first match.
C14_AnyMatchRemoves ==
    tg_pc = "pruned" =>
        LET P == tg_out.compare_with
            n == tg_in.n_failures
            thresholds(t) == {P[i][2] : i \in {j \in 1 .. Len(P) : fnmatch(t, P[j][1])}}
            stays(t) == \A d \in thresholds(t) : n <= d
            staying == SelectSeq(tg_in.targets, stays)
        IN  /\ tg_out.kept = IF staying = <<>> THEN <<"raw_records">> ELSE staying
            /\ P = remove_target_after_fails =>
                tg_out.kept = keep_target_first_match(tg_in.targets, P, n)

\* event_info is dropped after three failures by the pattern event* that
\* stands behind the pattern event_info, whose threshold is not exceeded.
C14_Witness ==
    /\ tg_pc = "pruned"
    /\ tg_in.n_failures = 3
    /\ tg_out.compare_with[1] = <<"event_info", 5>>
    /\ InList("event_info", tg_in.targets)
    /\ ~InList("event_info", tg_out.kept)

\* C15 as stated: a run whose mode contains pmtgain resolves to
\* led_calibration and raw_records, whatever the detectors and the flags.
C15_LedRunsResolveToLed ==
    (Started /\ InStr("pmtgain", tg_in.mode)) =>
        /\ tg_out.targets = <<"led_calibration">>
        /\ tg_out.post_processing = <<"raw_records">>

\* C15 amended: without --fix_target, a run whose mode contains pmtgain
\* resolves to led_calibration and raw_records when tpc is among its
\* detectors, and to raw_records and raw_records when it is not; with
\* --fix_target it resolves to the configured lists.
C15_LedRunsWithTpc ==
    (Started /\ InStr("pmtgain", tg_in.mode)) =>
        /\ (~tg_in.fix_target /\ "tpc" \in tg_in.detectors) =>
                /\ tg_out.targets = <<"led_calibration">>
                /\ tg_out.post_processing = <<"raw_records">>
        /\ (~tg_in.fix_target /\ "tpc" \notin tg_in.detectors) =>
                /\ tg_out.targets = <<"raw_records">>
                /\ tg_out.post_processing = <<"raw_records">>
        /\ tg_in.fix_target =>
                /\ tg_out.targets = tg_in.targets
                /\ tg_out.post_processing = tg_in.post_process

\* An LED run of the TPC that failed eight times and whose configured
\* targets are all pruned resolves to led_calibration.
C15_Witness ==
    /\ Started
    /\ InStr("pmtgain", tg_in.mode)
    /\ ~tg_in.fix_target
    /\ "tpc" \in tg_in.detectors
    /\ tg_in.n_failures = 8
    /\ tg_out.targets = <<"led_calibration">>

\* C16: no list handed to the child holds a name twice, and a run whose
\* resolved list would hold one is recorded as failed.
C16_DuplicatesFailTheRun ==
    /\ Started => (NoDuplicates(tg_out.targets) /\ NoDuplicates(tg_out.post_processing))
    /\ tg_pc \in {"raised", "restarted", "terminated"} => tg_out.state = "failed"


-----------------------------------------------------------------------------
(* Properties of infer_mode and infer_records_compressor (SpecMode) *)

Inferred == md_pc = "inferred"

\* The columns of the benchmark that apply on the host of the call.
CoresColumn == IF md_in.is_new_eb THEN benchmark.cores ELSE benchmark.cores_old
MessagesColumn ==
    IF md_in.is_new_eb THEN benchmark.max_messages ELSE benchmark.max_messages_old

\* The row of the benchmark for rate r, if it has one.
Tabulated(r) == \E i \in 1 .. Len(benchmark.mbs) : benchmark.mbs[i] = r
RowOf(r) == CHOOSE i \in 1 .. Len(benchmark.mbs) : benchmark.mbs[i] = r

\* v lies between the values the column has in the nearest rows around r.
Between(v, column, r) ==
    LET a == column[SetMax(RowsBelow(column, r))]
        b == column[SetMin(RowsAbove(column, r))]
    IN  (a <= v /\ v <= b) \/ (b <= v /\ v <= a)
StrictlyBetween(v, column, r) ==
    LET a == column[SetMax(RowsBelow(column, r))]
        b == column[SetMin(RowsAbove(column, r))]
    IN  (a < v /\ v < b) \/ (b < v /\ v < a)

\* C17 as stated: with --infer_mode and no earlier failure, a tabulated rate
\* (0 included) gets the values of its row and a rate between two rows gets,
\* for each resource, a value strictly between those of the rows around it.
C17_RowOrStrictlyBetween ==
    (Inferred /\ md_in.infer_mode /\ md_in.n_failures = 0) =>
        LET r == md_in.rate
        IN  IF Tabulated(r)
            THEN /\ md_out.cores = CoresColumn[RowOf(r)]
                 /\ md_out.max_messages = MessagesColumn[RowOf(r)]
                 /\ benchmark.timeout[RowOf(r)] # absent
                        => md_out.timeout = benchmark.timeout[RowOf(r)]
            ELSE /\ StrictlyBetween(md_out.cores, CoresColumn, r)
                 /\ StrictlyBetween(md_out.max_messages, MessagesColumn, r)
                 /\ StrictlyBetween(md_out.timeout, benchmark.timeout, r)

\* C17 amended: with --infer_mode and no earlier failure, a rate of 0 (none
\* could be read) gets --cores, --max_messages and a timeout of 1000; a
\* positive rate, replaced by 550 for an ambe run, gets the cores and
\* max_messages of its row if it is tabulated, the timeout of its row if the
\* row has one, and otherwise values between those of the nearest rows that
\* have one, ends included.
C17_RowOrBetween ==
    (Inferred /\ md_in.infer_mode /\ md_in.n_failures = 0) =>
        LET r == IF InStr("ambe", md_in.mode) THEN 550 ELSE md_in.rate
        IN  IF md_in.rate = 0
            THEN /\ md_out.cores = md_in.cores
                 /\ md_out.max_messages = md_in.max_messages
                 /\ md_out.timeout = 1000
            ELSE /\ Tabulated(r) =>
                        /\ md_out.cores = CoresColumn[RowOf(r)]
                        /\ md_out.max_messages = MessagesColumn[RowOf(r)]
                        /\ benchmark.timeout[RowOf(r)] # absent
                                => md_out.timeout = benchmark.timeout[RowOf(r)]
                 /\ Between(md_out.cores, CoresColumn, r)
                 /\ Between(md_out.max_messages, MessagesColumn, r)
                 /\ Between(md_out.timeout, benchmark.timeout, r)

\* 130 MB/s on a new event builder: 21 cores, 27 messages, 1350 s, each
\* between the rows of 110 and 150 MB/s (of 70 and 550 for the timeout).
C17_Witness ==
    /\ Inferred
    /\ md_in.infer_mode /\ md_in.n_failures = 0 /\ md_in.is_new_eb
    /\ md_in.rate = 130 /\ ~InStr("ambe", md_in.mode)
    /\ md_out.cores = 21 /\ md_out.max_messages = 27 /\ md_out.timeout = 1350

\* What infer_mode returns for the same run without its failures.
WithoutFailures == infer_mode([md_in EXCEPT !.n_failures = 0])

C19_CodecByFailuresThenSize ==
    Inferred =>
        md_out.records_compressor =
            IF md_in.n_failures >= 1
            THEN (IF md_in.n_failures > 1 THEN "lz4" ELSE "zstd")
            ELSE IF md_in.rate * md_in.chunk_length > 1800 * 10 THEN "lz4" ELSE "zstd"

\* C19 amended: the failures count only without --fix_resources; a run with
\* counted failures gets zstd after one and lz4 after more; a run without
\* gets lz4 when its rate (550 for an ambe run whose rate was read under
\* --infer_mode) is at least 65 MB/s and rate times chunk length exceeds
\* 1800 MB, and zstd otherwise.
C19_CodecByCountedFailuresRateAndSize ==
    Inferred =>
        LET n == IF md_in.fix_resources THEN 0 ELSE md_in.n_failures
            r == IF md_in.rate # 0 /\ md_in.infer_mode /\ InStr("ambe", md_in.mode)
                 THEN 550 ELSE md_in.rate
        IN  md_out.records_compressor =
                IF n >= 1 THEN (IF n > 1 THEN "lz4" ELSE "zstd")
                ELSE IF r >= 65 /\ r * md_in.chunk_length > 1800 * 10 THEN "lz4"
                ELSE "zstd"

\* A run that failed once, processed again under --fix_resources at
\* 330 MB/s with chunks of 5.5 s, gets lz4 for its 1815 MB chunks.
C19_Witness ==
    /\ Inferred
    /\ md_in.fix_resources /\ md_in.n_failures = 1
    /\ md_in.rate = 330 /\ md_in.chunk_length = 55 /\ ~InStr("ambe", md_in.mode)
    /\ md_out.records_compressor = "lz4"


-----------------------------------------------------------------------------
(* Properties of kill_process (SpecKill) *)

\* C20: the child and its descendants get SIGTERM first, and SIGKILL only
\* when signal_escalate seconds have passed since with the process alive.
C20_TermBeforeKill ==
    \A i \in 1 .. Len(signals) :
        signals[i][2] = "SIGKILL" =>
            \E j \in 1 .. (i - 1) :
                /\ signals[j][1] = signals[i][1]
                /\ signals[j][2] = "SIGTERM"
                /\ signals[i][3] >= signals[j][3] + signal_escalate


\* C31: on a fatal condition kill_process has been invoked on the compute
\* child before the run is written as failed, and the run is never written
\* as failed while that child is still alive.
C31_FailedOnlyWhenChildDead ==
    kill_pc = "failed" =>
        /\ \E i \in 1 .. Len(signals) : signals[i][1] = StraxPid
        /\ StraxPid \notin living


-----------------------------------------------------------------------------
(* Properties of the poll loop of process_run (SpecSupervise) *)

-----------------------------------------------------------------------------
(* Properties of the coverage check of process_run (SpecValidate) *)

\* By how much the duration of the run and the time its chunks cover
\* differ, in ms, for the run doc and the metadata process_run has read.
CoverageDifference ==
    LET d == (val.end - RunStart) - t_covered(val.md.chunks)
    IN  IF d < 0 THEN 0 - d ELSE d

\* C23: after exit code 0 the run is failed for a coverage mismatch exactly
\* when the time covered and the duration of the run differ by more than
\* max_timetamp_diff (5 s); a difference of exactly 5 s is accepted.
C23_FailsBeyondTolerance ==
    /\ (val_pc = "exit" /\ val.state = "failed" /\ val.reason = "covered")
        => CoverageDifference > max_timetamp_diff * 1000
    /\ val_pc = "files"
        => CoverageDifference <= max_timetamp_diff * 1000


-----------------------------------------------------------------------------
(* Properties of the loop of one instance (SpecLoop) *)

\* C24: a run is claimed (new, retry, or in a sweep of cleanup_db) only in
\* an iteration whose disk check read a utilisation below the high-water
\* mark and a free space above the floor; while the checks keep failing the
\* instance only sleeps and heartbeats "disk full"; and it is after
\* MaxDiskChecks failing checks in a row, and only then, that it publishes
\* the dead state and raises, having claimed nothing meanwhile.
C24_DiskGuard ==
    /\ [](loop_pc \in {"new", "process", "ping", "sweep", "retry"} =>
            /\ loop_local.disk_pct < (IF production THEN 95 ELSE 80)
            /\ loop_local.disk_free > 1)
    /\ [][/\ (loop_pc = "disk" /\ loop_pc' # "new") =>
                /\ run_coll' = run_coll
                /\ selected' = selected
                /\ online_monitor' = online_monitor
                /\ now' = now + wait_diskspace_dt
                /\ loop_local'.i = loop_local.i + 1
                /\ loop_pc' = "disk" => bs_state' = "disk full"
          /\ loop_pc' = "disk_fatal" <=> loop_local'.i = MaxDiskChecks
          /\ loop_pc' = "disk_fatal" => bs_state' = dead_state]_vars

\* The instance has claimed a run in one iteration and has given up on the
\* disk in a later one.
C24_Witness ==
    /\ loop_pc = "disk_fatal"
    /\ selected # {}
    /\ bs_state = dead_state

\* C26: ping_dbs never raises: with the registry unreachable it keeps
\* retrying and returns only after a ping has succeeded.
C26_PingNeverRaises == loop_pc # "ping_raised"

\* C27: in test mode no step of the loop, of cleanup_db or of process_run
\* changes the run collection or the online monitor data of a run.
C27_TestModeWritesNothing ==
    [][~production => (run_coll' = run_coll /\ online_monitor' = online_monitor)]_vars

\* C28: in test mode every claim of loop(), for new runs and for retries,
\* leaves the run collection as it is and returns what a production
\* instance would claim: the most recently started matching run among those
\* the loop has not been given before, and None only when there is none.
C28_TestModeSelectsAsProduction ==
    [][(~production /\ loop_pc \in {"new", "retry"}) =>
        LET remaining == Candidates(loop_pc, now) \ selected IN
        /\ run_coll' = run_coll
        /\ loop_local'.rd =
            IF remaining = {} THEN 0
            ELSE CHOOSE r \in remaining :
                    \A o \in remaining : run_coll[o].start <= run_coll[r].start]_vars


-----------------------------------------------------------------------------
(* Properties of set_state (SpecStart) *)

\* C25: set_state appends a new heartbeat document exactly when it found no
\* document of this host or the one it found is older than
\* min_status_interval, whatever its age; otherwise it overwrites that
\* document in place and the number of documents does not change.
C25_NewRecordWhenOlder ==
    [][\A i \in alive :
        (boot_pc[i] = "write" /\ boot_pc'[i] = "find") =>
            /\ Len(bs_coll') = Len(bs_coll) + 1
                <=> \/ previous_entry[i] = 0
                    \/ now - bs_coll[previous_entry[i]].time > min_status_interval
            /\ Len(bs_coll') \in {Len(bs_coll), Len(bs_coll) + 1}]_vars


\* The runs that consider_run has returned in the current iteration of
\* loop(), in cleanup_db included, and those loop() handed to process_run.
ClaimedInIteration == {c[1] : c \in loop_local.claimed}
TakenInIteration == {c[1] : c \in {d \in loop_local.claimed : d[2] \in {"new", "retry"}}}

\* A failed run is taken for a retry only when the query for unclaimed runs
\* finds none, and after process_run loop() is back at its top, from where
\* the next query is the one for unclaimed runs.
LoopOrder ==
    /\ (loop_pc = "retry" /\ loop_pc' = "process")
            => consider_run("new", loop_local.new_runs_seen) = 0
    /\ loop_pc = "process" => loop_pc' \in {"process", "disk"}
    /\ loop_pc = "disk" => loop_pc' \in {"disk", "disk_fatal", "new"}

\* C34 as stated: a failed run is claimed for retry only if no unclaimed run
\* could be claimed, at most one run is claimed in one iteration of loop(),
\* and after processing a run loop() looks for unclaimed runs before any
\* retry or sweep.
C34_OneClaimPerIteration ==
    /\ [](Cardinality(ClaimedInIteration) <= 1)
    /\ [][LoopOrder]_vars

\* C34, amended: at most one run is handed to process_run in one iteration
\* of loop(); cleanup_db, which runs between the two queries of loop(),
\* claims and fails any number of further runs in the same iteration.
C34_OneRunPerIteration ==
    /\ [](Cardinality(TakenInIteration) <= 1)
    /\ [][LoopOrder]_vars

\* In production loop() has claimed a failed run for a retry in an iteration
\* in which cleanup_db claimed another run.
C34_Witness ==
    /\ production
    /\ loop_pc = "process"
    /\ loop_local.query = "retry"
    /\ Cardinality(ClaimedInIteration) > 1
    /\ TakenInIteration = {loop_local.rd}


-----------------------------------------------------------------------------
(* Properties of run() with --process (SpecProcess) *)

\* C29: --process NUMBER claims and processes the run whatever its state,
\* also when it is done, busy or considering: it is never refused.
C29_ProcessesWhateverTheState ==
    /\ loop_pc # "refused"
    /\ loop_pc \in {"wait", "is_alive", "return", "exited"} =>
            loop_local.rd = loop_local.number

\* C30: wait_on_delete_thread returns only when no DeleteThread runs any
\* more, so that bootstrax never exits while one is deleting.
C30_NoExitWhileDeleting ==
    /\ loop_pc = "return" => delete_thread # "running"
    /\ delete_thread # "killed"


\* C39: once the DeleteThread has finished, wait_on_delete_thread returns,
\* also when the thread finished after threading.enumerate() listed it and
\* before is_alive() is called.
C39_WaitReturns ==
    (loop_pc \in {"wait", "is_alive"} /\ delete_thread = "finished")
        ~> loop_pc \in {"return", "exited"}

\* C40: in test mode loop() ends, whatever the registry holds: it reaches
\* its break (or one of the exceptions that end it).
C40_TestModeTerminates ==
    ~production ~> loop_pc \in {"stopped", "disk_fatal", "ping_raised"}


-----------------------------------------------------------------------------
(* Properties of clean_run and fail_run on the output of one run (SpecClean) *)

\* The documents of ThisHost in a data list.
OfThisHost(data) == {data[i] : i \in {j \in 1 .. Len(data) : data[j].host = ThisHost}}

C33_CleanRunIdempotent ==
    LET once == clean_run_data(Stored, FALSE, now)
        twice == clean_run_data(once, FALSE, now)
    IN  /\ twice.data = once.data
        /\ twice.disk = once.disk
        /\ OfThisHost(run_doc.data) = {} => once.data = run_doc.data /\ once.disk = disk

\* fail_run's clean_run has removed what this host had registered for the
\* run, and a _temp directory of the run is left on its disk.
C33_Witness ==
    /\ clean_pc = "fail_write"
    /\ \E e \in run_doc.deleted_data : e.host = ThisHost
    /\ \E t \in OutTypes : LocTemp(t) \in disk
    /\ OfThisHost(run_doc.data) = {}

C36_EndsDoneOrFailed ==
    clean_pc \in {"raised", "done", "failed"} => run_doc.state \in {"done", "failed"}

-----------------------------------------------------------------------------
(* Properties of eb_can_process (SpecEb) *)

\* C35: in production an instance on an old event builder claims a TPC run
\* only when more than max_queue_new_runs runs were untouched and a new
\* event builder had been busy on a run for longer than eb3-5_max_busy_time.
C35_OldEbNeedsBothCriteria ==
    (/\ eb_pc = "claimed"
     /\ eb_in.production
     /\ eb_in.hostname \notin NewEbs
     /\ eb_out.claimed = "tpc")
        => /\ eb_in.untouched_tpc + 1 + eb_in.untouched_veto > max_queue_new_runs
           /\ n_ebs_busy(eb_in.ebs, now) > 0


-----------------------------------------------------------------------------
(* Properties of the refreshes of a claimed run (SpecRefresh) *)

\* C37: the sweep of another instance fails the run as stuck only when its
\* claimant has stopped working on it, never while the claimant is in
\* infer_mode, in the poll loop or in all_files_saved.
C37_SweptOnlyWhenStopped ==
    work.swept_in \in {"none", "stopped", "raised"}

====
